---- MODULE Spec2Model ----
(***************************************************************************)
(* Task / approval lifecycle of the Personal AI Employee vault.           *)
(*                                                                         *)
(*   Spec       the Item Store: ApprovalManager, PlanManager, the draft    *)
(*              creator and the external actor that approves or rejects   *)
(*   SpecOrch   the Orchestrator scan / dispatch / sleep loop              *)
(*   SpecOrchFair  the same, with the loop taking its steps (liveness)     *)
(*   SpecWatch  the FileSystemWatcher and GmailWatcher poll loops          *)
(*   SpecSched  the Scheduler: run_due_tasks over the job table            *)
(*   SpecLife   a watcher over restarts of its process                     *)
(*   SpecCopy   the FileSystemWatcher while files are copied into the inbox*)
(*   SpecSkill  the GmailWatcher copy of the gmail-watcher skill           *)
(*   SpecMailFair  the GmailWatcher loop taking its steps (liveness)       *)
(*   SpecCache  the GmailWatcher cache file: save, process end, load       *)
(*   SpecGate   the approval gate: request creators and process_approved   *)
(*   SpecStatus check_status queries racing with the external actor       *)
(*   SpecExpiry approval and process_approved before and after the expiry  *)
(*   SpecText   the text the creators write into an item file              *)
(*   SpecPlan   PlanManager.update_step on the steps of one plan           *)
(*   SpecMcp    MCPManager start_server and stop_server calls              *)
(*                                                                         *)
(* The specifications share one module;       the variables of the other  *)
(* components stay at their initial value in each of them.                *)
(***************************************************************************)
EXTENDS Integers, Sequences, FiniteSets, TLC

\* ------------------------------------------------------------------ bounds
MaxTime == 3          \* clock ticks modelled where check_status is queried
TicksPerHour == 2     \* clock ticks in one hour (the code has microseconds)
MaxRequests == 1      \* requests created where check_status is queried
MaxMoveTime == 1      \* clock ticks modelled where items are moved to Done
MaxItems == 2         \* work items created where items are moved to Done
MaxRestarts == 1      \* restarts of a watcher or of the Orchestrator modelled
MaxSaves == 4         \* writes of the Gmail cache file that are counted
MaxSpawns == 3        \* processes the MCPManager spawns

\* ------------------------------------------------------------ Item Store
VARIABLES now, posix, store, nextId, cs, pa, tr, quota, horizon

storeVars == <<now, posix, store, nextId, cs, pa, tr, quota, horizon>>

\* ---------------------------------------------------------- Orchestrator
VARIABLES na, o_processed, o_pc, o_batch, o_outcome, o_ret, o_redo,
          o_report, o_scans, o_prev, o_restarts

orchVars == <<na, o_processed, o_pc, o_batch, o_outcome, o_ret, o_redo,
              o_report, o_scans, o_prev, o_restarts>>

\* ---------------------------------------------------------------- Watchers
VARIABLES which, inbox, fs_processed, gm_unread, gm_important, gm_processed,
          gm_file, w_pc, w_queue, w_seen, w_ok, w_ret, w_created,
          gm_old, gm_file_old, w_err, w_restarts, w_copying, gm_saves, gm_doc

watchVars == <<which, inbox, fs_processed, gm_unread, gm_important, gm_processed,
               gm_file, w_pc, w_queue, w_seen, w_ok, w_ret, w_created,
               gm_old, gm_file_old, w_err, w_restarts, w_copying, gm_saves,
               gm_doc>>

\* ---------------------------------------------------------------- Scheduler
VARIABLES s_clock, s_pc, s_now, s_idx, s_results, s_execs, s_calls

schedVars == <<s_clock, s_pc, s_now, s_idx, s_results, s_execs, s_calls>>

\* ------------------------------------------------- the text of an item file
VARIABLES t_pc, t_creator, t_label, t_payload, t_file, p_marks, p_status, p_call

textVars == <<t_pc, t_creator, t_label, t_payload, t_file, p_marks, p_status, p_call>>

\* ------------------------------------------------------------- MCPManager
VARIABLES m_live, m_pidfile, m_next, m_call

mcpVars == <<m_live, m_pidfile, m_next, m_call>>

vars == <<storeVars, orchVars, watchVars, schedVars, textVars, mcpVars>>

Folders == {"Plans", "Pending_Approval", "Approved", "Rejected", "Done"}

\* A file name: the label kind, the strftime timestamp and the .md suffix.
\*   A  create_approval   "<ACTION>_<ts>.md"
\*   L  create_post_draft "LINKEDIN_<title>_<ts>.md"
\*   P  create_plan       "PLAN_<objective>_<ts>.md"
\*   X  a file the external agent wrote into Pending_Approval
Kinds == {"A", "L", "P", "X"}

LastTick == IF MaxTime > MaxMoveTime THEN MaxTime ELSE MaxMoveTime

Names == [kind : Kinds, ts : 0..LastTick, md : BOOLEAN]

FileName(k, t) == [kind |-> k, ts |-> t, md |-> TRUE]

\* filename + ".md"
WithMd(n) == [n EXCEPT !.md = TRUE]

\* The `expires:` header line of a file, as text fields separated by ':'.
\*   ts        "expires: <date>T<hh>:<mm>:<ss>"   written by isoformat()
\*   missing   no such line
\*   junk      "expires: soon"                    nothing parseable
\*   tailjunk  "expires: <date>T<hh>:<mm>:<ss> PST"  unparseable as a whole
NoExpires == [kind |-> "missing", h |-> 0, m |-> 0]

\* datetime.isoformat(): the date-and-hour part, then the minutes after ':'
IsoFormat(t) == [kind |-> "ts", h |-> t \div TicksPerHour, m |-> t % TicksPerHour]

\* The `status:` header line of a file.
\*   word     "status: pending": one word, as the creators write it
\*   stamped  "status: <date>T<hh>:<mm> (expires: never)": a time stamp, and
\*            further on in the line the text "expires:"
\*   missing  no such line
StatusWord(w) == [kind |-> "word", h |-> 0, m |-> 0, word |-> w]

StatusStamped(hour) == [kind |-> "stamped", h |-> hour, m |-> 0, word |-> ""]

NoStatus == [kind |-> "missing", h |-> 0, m |-> 0, word |-> ""]

NoFile == [id |-> 0, by |-> "none", exp |-> NoExpires, E |-> 0, status |-> NoStatus]

IsFile(c) == c.id # 0

\* A folder maps the names of the files it holds to their content; the store
\* maps every lifecycle folder to its listing.
EmptyFolder == [n \in {} |-> NoFile]

Exists(st, f, n) == n \in DOMAIN st[f]

ContentOf(st, f, n) == IF n \in DOMAIN st[f] THEN st[f][n] ELSE NoFile

\* Path.write_text: creates the file or truncates and rewrites an existing one
WriteText(st, f, n, c) ==
    [st EXCEPT ![f] = [x \in (DOMAIN st[f]) \cup {n} |-> IF x = n THEN c ELSE st[f][x]]]

\* the directory entry n of folder f is removed
Unlink(st, f, n) ==
    [st EXCEPT ![f] = [x \in (DOMAIN st[f]) \ {n} |-> st[f][x]]]

\* the item is wholly in folder f (under any name)
ItemIn(st, f, i) == \E n \in DOMAIN st[f] : st[f][n].id = i

FoldersOf(st, i) == {f \in Folders : ItemIn(st, f, i)}

\* ---------------------------------------------------------- check_status
\* the folders check_status looks into, in dictionary order, and the status
\* each one stands for
FolderSeq == <<"Pending_Approval", "Approved", "Rejected", "Done">>

StatusSeq == <<"pending", "approved", "rejected", "done">>

\* line.split(':')[1].strip() handed to datetime.fromisoformat: the text
\* between the first and the second colon, which is the date and the hour.
ExpiryField(line) ==
    IF line.kind \in {"ts", "tailjunk", "stamped"}
    THEN [ok |-> TRUE, t |-> line.h * TicksPerHour]
    ELSE [ok |-> FALSE, t |-> 0]

\* 'expires:' in line
HasExpiresText(line) == line.kind \in {"ts", "junk", "tailjunk", "stamped"}

\* the answer for a file found in Pending_Approval with content c at time t:
\* every line that holds the text 'expires:' is parsed, and the first one
\* whose time has passed answers 'expired'
PendingStatus(c, t) ==
    IF \E line \in {c.exp, [kind |-> c.status.kind, h |-> c.status.h, m |-> c.status.m]} :
           HasExpiresText(line) /\ ExpiryField(line).ok /\ t > ExpiryField(line).t
    THEN "expired"
    ELSE "pending"

\* check_status as it would be if the header were authoritative: the answer
\* is the word of the `status:` line of the file found
CheckStatusByHeader(st, filename, t) ==
    LET hits == {i \in 1..Len(FolderSeq) : Exists(st, FolderSeq[i], filename)}
        first == CHOOSE i \in hits : \A j \in hits : i <= j
    IN  IF hits = {}
        THEN "not_found"
        ELSE st[FolderSeq[first]][filename].status.word

\* check_status as it would be if the expiry were looked at in every folder
CheckStatusExpiryAnywhere(st, filename, t) ==
    LET hits == {i \in 1..Len(FolderSeq) : Exists(st, FolderSeq[i], filename)}
        first == CHOOSE i \in hits : \A j \in hits : i <= j
    IN  IF hits = {}
        THEN "not_found"
        ELSE IF PendingStatus(st[FolderSeq[first]][filename], t) = "expired"
        THEN "expired"
        ELSE StatusSeq[first]

\* check_status(filename) run at one instant t on the store st: the first
\* folder of the dictionary that holds the name decides; only a file found in
\* Pending_Approval is read
CheckStatus(st, filename, t) ==
    LET hits == {i \in 1..Len(FolderSeq) : Exists(st, FolderSeq[i], filename)}
        first == CHOOSE i \in hits : \A j \in hits : i <= j
    IN  IF hits = {}
        THEN "not_found"
        ELSE IF StatusSeq[first] = "pending"
        THEN PendingStatus(st[FolderSeq[first]][filename], t)
        ELSE StatusSeq[first]

CsIdle == [pc |-> "idle", file |-> FileName("A", 0), idx |-> 1, result |-> "none",
           content |-> NoFile, at |-> 0, startPending |-> FALSE, clean |-> TRUE]

\* bookkeeping: a change other than the approving move hit the file of a
\* running query
NoteMove(c, n, what) ==
    IF c.pc \in {"scan", "read"} /\ c.file = n /\ what # "approve"
    THEN [c EXCEPT !.clean = FALSE]
    ELSE c

\* ------------------------------------------------------------ transitions
\* Path.rename(dest): fails when the source is gone; an existing destination
\* file is replaced silently on POSIX and raises FileExistsError on Windows.
\* (The Done folder exists: Orchestrator and PlanManager create it.)
RenameLossy(st, sf, sn, df, dn, px) ==
    IF ~Exists(st, sf, sn)
    THEN [st |-> st, res |-> "FileNotFoundError"]
    ELSE [st |-> Unlink(st, sf, sn), res |-> "ok"]

Rename(st, sf, sn, df, dn, px) ==
    IF ~Exists(st, sf, sn)
    THEN [st |-> st, res |-> "FileNotFoundError"]
    ELSE IF Exists(st, df, dn) /\ ~px
    THEN [st |-> st, res |-> "FileExistsError"]
    ELSE [st |-> Unlink(WriteText(st, df, dn, st[sf][sn]), sf, sn), res |-> "ok"]

\* what the last transition call found and did
TrNone == [op |-> "none", src |-> "Plans", name |-> FileName("A", 0), item |-> 0,
           srcHad |-> FALSE, dstHad |-> FALSE, dstItem |-> 0, result |-> "none"]

TrOf(op, sf, sn, dn, res) ==
    [op |-> op, src |-> sf, name |-> sn, item |-> ContentOf(store, sf, sn).id,
     srcHad |-> Exists(store, sf, sn), dstHad |-> Exists(store, "Done", dn),
     dstItem |-> ContentOf(store, "Done", dn).id, result |-> res]

PaIdle == [pc |-> "idle", list |-> {}, cur |-> FileName("A", 0), result |-> "none"]

\* ------------------------------------------------------- Item Store: Init
ExpiresHours == {1}

\* the clock advances
Tick ==
    /\ cs.pc # "done"
    /\ now < horizon
    /\ now' = now + 1
    /\ tr' = TrNone
    /\ UNCHANGED <<posix, quota, horizon, store, nextId, cs, pa>>
    /\ UNCHANGED <<orchVars, watchVars, schedVars, textVars, mcpVars>>

\* -------------------------------------------------------------- creators
\* ApprovalManager.create_approval(type, action, details, expires_hours)
CreateApproval(hours) ==
    /\ cs.pc # "done"
    /\ nextId <= quota
    /\ LET E == now + hours * TicksPerHour
           c == [id |-> nextId, by |-> "create_approval", exp |-> IsoFormat(E), E |-> E,
                 status |-> StatusWord("pending")]
       IN  store' = WriteText(store, "Pending_Approval", FileName("A", now), c)
    /\ cs' = NoteMove(cs, FileName("A", now), "write")
    /\ nextId' = nextId + 1
    /\ tr' = TrNone
    /\ UNCHANGED <<now, posix, quota, horizon, pa>>
    /\ UNCHANGED <<orchVars, watchVars, schedVars, textVars, mcpVars>>

\* LinkedInWatcher.create_post_draft(content, title, hashtags): no expires line
CreatePostDraft ==
    /\ cs.pc # "done"
    /\ nextId <= quota
    /\ LET c == [id |-> nextId, by |-> "create_post_draft", exp |-> NoExpires, E |-> 0,
                 status |-> StatusWord("pending_approval")]
       IN  store' = WriteText(store, "Pending_Approval", FileName("L", now), c)
    /\ cs' = NoteMove(cs, FileName("L", now), "write")
    /\ nextId' = nextId + 1
    /\ tr' = TrNone
    /\ UNCHANGED <<now, posix, quota, horizon, pa>>
    /\ UNCHANGED <<orchVars, watchVars, schedVars, textVars, mcpVars>>

\* PlanManager.create_plan(objective, steps); the constructor makes Plans, Done
CreatePlan ==
    /\ cs.pc # "done"
    /\ nextId <= quota
    /\ LET c == [id |-> nextId, by |-> "create_plan", exp |-> NoExpires, E |-> 0,
                 status |-> StatusWord("in_progress")]
       IN  store' = WriteText(store, "Plans", FileName("P", now), c)
    /\ nextId' = nextId + 1
    /\ tr' = TrNone
    /\ UNCHANGED <<now, posix, quota, horizon, cs, pa>>
    /\ UNCHANGED <<orchVars, watchVars, schedVars, textVars, mcpVars>>

\* ------------------------------------------------------ the external actor
\* The external agent writes a request of its own into Pending_Approval; its
\* expires line is whatever it wrote.
ExtWritePending(k) ==
    /\ cs.pc # "done"
    /\ nextId <= quota
    /\ \A f \in Folders : ~Exists(store, f, FileName("X", now))
    /\ LET c == [id |-> nextId, by |-> "external",
                 exp |-> [kind |-> k, h |-> 0, m |-> 0], E |-> 0,
                 status |-> StatusWord("pending")]
       IN  store' = WriteText(store, "Pending_Approval", FileName("X", now), c)
    /\ cs' = NoteMove(cs, FileName("X", now), "write")
    /\ nextId' = nextId + 1
    /\ tr' = TrNone
    /\ UNCHANGED <<now, posix, quota, horizon, pa>>
    /\ UNCHANGED <<orchVars, watchVars, schedVars, textVars, mcpVars>>

\* one atomic rename by the human or agent, into a free destination name
ExtMove(n, from, to, what) ==
    /\ cs.pc # "done"
    /\ Exists(store, from, n)
    /\ ~Exists(store, to, n)
    /\ store' = Unlink(WriteText(store, to, n, store[from][n]), from, n)
    /\ cs' = NoteMove(cs, n, what)
    /\ tr' = TrNone
    /\ UNCHANGED <<now, posix, quota, horizon, nextId, pa>>
    /\ UNCHANGED <<orchVars, watchVars, schedVars, textVars, mcpVars>>

ExtApprove(n) == ExtMove(n, "Pending_Approval", "Approved", "approve")

ExtReject(n) == ExtMove(n, "Pending_Approval", "Rejected", "reject")

\* the human takes an approval back before it was executed
ExtRevoke(n) == ExtMove(n, "Approved", "Rejected", "revoke")

\* ------------------------------------------- ApprovalManager.process_approved
\* the folder process_approved takes its files from: self.approved
ProcessFromPending == "Pending_Approval"

ProcessFromRejected == "Rejected"

ProcessFrom == "Approved"

\* for filepath in self.approved.iterdir(): the directory listing
PAStart ==
    /\ cs.pc # "done"
    /\ pa.pc = "idle"
    /\ pa' = [pc |-> "loop", list |-> DOMAIN store[ProcessFrom],
              cur |-> pa.cur, result |-> "none"]
    /\ tr' = TrNone
    /\ UNCHANGED <<now, posix, quota, horizon, store, nextId, cs>>
    /\ UNCHANGED <<orchVars, watchVars, schedVars, textVars, mcpVars>>

\* if filepath.is_file() and filepath.suffix == '.md'
PACheck(n) ==
    /\ cs.pc # "done"
    /\ pa.pc = "loop"
    /\ n \in pa.list
    /\ pa' = IF Exists(store, ProcessFrom, n) /\ n.md
             THEN [pa EXCEPT !.pc = "rename", !.cur = n, !.list = @ \ {n}]
             ELSE [pa EXCEPT !.list = @ \ {n}]
    /\ tr' = TrNone
    /\ UNCHANGED <<now, posix, quota, horizon, store, nextId, cs>>
    /\ UNCHANGED <<orchVars, watchVars, schedVars, textVars, mcpVars>>

\* dest = self.done / filepath.name; filepath.rename(dest); an exception of
\* rename leaves the loop and process_approved
PARename ==
    /\ cs.pc # "done"
    /\ pa.pc = "rename"
    /\ LET r == Rename(store, ProcessFrom, pa.cur, "Done", pa.cur, posix)
       IN  /\ store' = r.st
           /\ tr' = TrOf("process_approved", ProcessFrom, pa.cur, pa.cur, r.res)
           /\ pa' = IF r.res = "ok"
                    THEN [pa EXCEPT !.pc = "loop"]
                    ELSE [pa EXCEPT !.pc = "idle", !.list = {}, !.result = r.res]
           /\ cs' = IF r.res = "ok" THEN NoteMove(cs, pa.cur, "execute") ELSE cs
    /\ UNCHANGED <<now, posix, quota, horizon, nextId>>
    /\ UNCHANGED <<orchVars, watchVars, schedVars, textVars, mcpVars>>

\* return processed
PAReturn ==
    /\ cs.pc # "done"
    /\ pa.pc = "loop"
    /\ pa.list = {}
    /\ pa' = [pa EXCEPT !.pc = "idle", !.result = "returned"]
    /\ tr' = TrNone
    /\ UNCHANGED <<now, posix, quota, horizon, store, nextId, cs>>
    /\ UNCHANGED <<orchVars, watchVars, schedVars, textVars, mcpVars>>

\* ------------------------------------------------- PlanManager.complete_plan
\* _find_file: the exact name, else the name with ".md" appended
FindFile(st, filename) ==
    IF Exists(st, "Plans", filename)
    THEN [found |-> TRUE, name |-> filename]
    ELSE IF ~filename.md /\ Exists(st, "Plans", WithMd(filename))
    THEN [found |-> TRUE, name |-> WithMd(filename)]
    ELSE [found |-> FALSE, name |-> filename]

\* complete_plan(filename): dest = self.done / filename, the name as given
CompletePlan(filename) ==
    /\ cs.pc # "done"
    /\ LET f == FindFile(store, filename)
           r == Rename(store, "Plans", f.name, "Done", filename, posix)
       IN  IF ~f.found
           THEN /\ store' = store
                /\ tr' = TrOf("complete_plan", "Plans", filename, filename, "False")
           ELSE /\ store' = r.st
                /\ tr' = TrOf("complete_plan", "Plans", f.name, filename,
                              IF r.res = "ok" THEN "True" ELSE r.res)
    /\ UNCHANGED <<now, posix, quota, horizon, nextId, cs, pa>>
    /\ UNCHANGED <<orchVars, watchVars, schedVars, textVars, mcpVars>>

\* ---------------------------------------------- ApprovalManager.check_status
CSStart(f) ==
    /\ cs.pc = "idle"
    /\ cs' = [pc |-> "scan", file |-> f, idx |-> 1, result |-> "none",
              content |-> NoFile, at |-> now,
              startPending |-> Exists(store, "Pending_Approval", f), clean |-> TRUE]
    /\ tr' = TrNone
    /\ UNCHANGED <<now, posix, quota, horizon, store, nextId, pa>>
    /\ UNCHANGED <<orchVars, watchVars, schedVars, textVars, mcpVars>>

\* filepath = folder / filename; if filepath.exists()
CSExists ==
    /\ cs.pc = "scan"
    /\ cs' = IF Exists(store, FolderSeq[cs.idx], cs.file)
             THEN IF StatusSeq[cs.idx] = "pending"
                  THEN [cs EXCEPT !.pc = "read"]
                  ELSE [cs EXCEPT !.pc = "done", !.result = StatusSeq[cs.idx]]
             ELSE IF cs.idx = Len(FolderSeq)
                  THEN [cs EXCEPT !.pc = "done", !.result = "not_found"]
                  ELSE [cs EXCEPT !.idx = @ + 1]
    /\ tr' = TrNone
    /\ UNCHANGED <<now, posix, quota, horizon, store, nextId, pa>>
    /\ UNCHANGED <<orchVars, watchVars, schedVars, textVars, mcpVars>>

\* check_status as it would be if expiry were enforced on read: the expired
\* request is deleted
CSReadSweep ==
    /\ cs.pc = "read"
    /\ Exists(store, "Pending_Approval", cs.file)
    /\ cs' = [cs EXCEPT !.pc = "done",
                        !.content = store["Pending_Approval"][cs.file],
                        !.at = now,
                        !.result = PendingStatus(store["Pending_Approval"][cs.file], now)]
    /\ store' = IF PendingStatus(store["Pending_Approval"][cs.file], now) = "expired"
                THEN Unlink(store, "Pending_Approval", cs.file)
                ELSE store
    /\ tr' = TrNone
    /\ UNCHANGED <<now, posix, quota, horizon, nextId, pa>>
    /\ UNCHANGED <<orchVars, watchVars, schedVars, textVars, mcpVars>>

\* content = filepath.read_text(...) stands outside the try block: a file
\* that is gone by now raises FileNotFoundError out of check_status
CSRead ==
    /\ cs.pc = "read"
    /\ cs' = IF Exists(store, "Pending_Approval", cs.file)
             THEN [cs EXCEPT !.pc = "done",
                             !.content = store["Pending_Approval"][cs.file],
                             !.at = now,
                             !.result = PendingStatus(store["Pending_Approval"][cs.file], now)]
             ELSE [cs EXCEPT !.pc = "done", !.result = "FileNotFoundError"]
    /\ tr' = TrNone
    /\ UNCHANGED <<now, posix, quota, horizon, store, nextId, pa>>
    /\ UNCHANGED <<orchVars, watchVars, schedVars, textVars, mcpVars>>

\* return status: the caller has the answer (or the exception)
CSReturn ==
    /\ cs.pc = "done"
    /\ cs' = CsIdle
    /\ tr' = TrNone
    /\ UNCHANGED <<now, posix, quota, horizon, store, nextId, pa>>
    /\ UNCHANGED <<orchVars, watchVars, schedVars, textVars, mcpVars>>

\* ------------------------------------------------- Item Store: next states
PresentNames == UNION {DOMAIN store[f] : f \in Folders}

\* the names complete_plan is called with: with or without ".md"
PlanArgs == {n \in Names : n.kind = "P" /\ n.ts <= now}

\* the expires lines the external agent writes: unparseable ones
ExtExpires == {"junk", "tailjunk"}

StoreNext ==
    \/ Tick
    \/ \E h \in ExpiresHours : CreateApproval(h)
    \/ CreatePlan
    \/ \E n \in DOMAIN store["Pending_Approval"] : ExtApprove(n)
    \/ \E n \in DOMAIN store["Pending_Approval"] : ExtReject(n)
    \/ \E n \in DOMAIN store["Approved"] : ExtRevoke(n)
    \/ PAStart
    \/ \E n \in pa.list : PACheck(n)
    \/ PARename
    \/ PAReturn
    \/ \E n \in PlanArgs : CompletePlan(n)

GateNext ==
    \/ Tick
    \/ \E h \in ExpiresHours : CreateApproval(h)
    \/ CreatePostDraft
    \/ \E n \in DOMAIN store["Pending_Approval"] : ExtApprove(n)
    \/ \E n \in DOMAIN store["Pending_Approval"] : ExtReject(n)
    \/ \E n \in DOMAIN store["Approved"] : ExtRevoke(n)
    \/ PAStart
    \/ \E n \in pa.list : PACheck(n)
    \/ PARename
    \/ PAReturn

\* requests that are approved, sometimes after their expiry, and executed
ExpiryNext ==
    \/ Tick
    \/ \E h \in ExpiresHours : CreateApproval(h)
    \/ \E n \in DOMAIN store["Pending_Approval"] : ExtApprove(n)
    \/ \E n \in DOMAIN store["Pending_Approval"] : ExtReject(n)
    \/ PAStart
    \/ \E n \in pa.list : PACheck(n)
    \/ PARename
    \/ PAReturn

StatusNext ==
    \/ Tick
    \/ \E h \in ExpiresHours : CreateApproval(h)
    \/ CreatePostDraft
    \/ \E k \in ExtExpires : ExtWritePending(k)
    \/ \E n \in DOMAIN store["Pending_Approval"] : ExtApprove(n)
    \/ \E n \in DOMAIN store["Pending_Approval"] : ExtReject(n)
    \/ \E n \in PresentNames \cup {FileName("A", 0)} : CSStart(n)
    \/ CSExists
    \/ CSRead
    \/ CSReturn

\* ============================================================ Orchestrator
\* the files that show up in Needs_Action
TaskNames == {"A.md", "B.md", "notes.txt"}

\* filepath.suffix == '.md'
IsMd(n) == n \in {"A.md", "B.md"}

Bump(c) == IF c < 2 THEN c + 1 ELSE 2

\* self.processed_files.add(filepath.name) for every file the scan returns
MarkDispatchedNot(done, new) == done

MarkDispatched(done, new) == done \cup new

\* What a reader finds in a file of Needs_Action:
\*   empty       created (opened for writing), nothing written yet
\*   partial     the beginning of the text is written, the rest is not
\*   unreadable  open() or read(10) raises (locked by its writer, or the bytes
\*               written so far end inside a character)
\*   blank       complete; its first 10 characters are white space
\*   content     complete; its first 10 characters hold text
Contents == {"empty", "partial", "unreadable", "blank", "content"}

\* f.read(10) returned, and content.strip() is not empty
LeadingText(c) == c \in {"partial", "content"}

\* what check_for_new_tasks appends to new_tasks: the .md files not in
\* processed_files whose first 10 characters are not blank
NewTasksFirstOnly(dir, done) ==
    IF done = {} THEN {n \in DOMAIN dir : IsMd(n) /\ LeadingText(dir[n])} ELSE {}

NewTasksAnySuffix(dir, done) ==
    {n \in DOMAIN dir : n \notin done /\ LeadingText(dir[n])}

NewTasks(dir, done) ==
    {n \in DOMAIN dir : IsMd(n) /\ n \notin done /\ LeadingText(dir[n])}

\* no dispatch was reported since the last scan
NoPrompt == [cwd |-> "none", tasks |-> {}]

NoReport ==
    [ret |-> FALSE, event |-> "none", killed |-> FALSE, dashboard |-> FALSE,
     popen |-> 0, prompt |-> NoPrompt]

\* a prompt that names one of the task files it was given
BuildQwenPromptFirst(task_files) ==
    [cwd |-> "vault", tasks |-> {CHOOSE n \in task_files : TRUE}]

\* build_qwen_prompt: what the text holds of its inputs, self.vault_path under
\* "Current Working Directory" and one line "- `name`" per task file
BuildQwenPrompt(task_files) == [cwd |-> "vault", tasks |-> task_files]

\* run: new_tasks = self.check_for_new_tasks()
OScan ==
    /\ o_pc = "scan"
    /\ LET new == NewTasks(na, o_processed)
       IN  /\ o_batch' = new
           /\ o_processed' = MarkDispatched(o_processed, new)
           /\ o_ret' = [n \in TaskNames |-> IF n \in new THEN Bump(o_ret[n]) ELSE o_ret[n]]
           /\ o_pc' = IF new # {} THEN "dispatch" ELSE "sleep"
           /\ o_redo' = IF o_outcome = "timeout"
                        THEN {n \in o_batch : n \in DOMAIN na /\ na[n] = "content"}
                        ELSE {}
    /\ o_outcome' = "none"
    /\ o_report' = NoReport
    /\ o_scans' = Bump(o_scans)
    /\ UNCHANGED <<na, o_prev, o_restarts>>
    /\ UNCHANGED <<storeVars, watchVars, schedVars, textVars, mcpVars>>

\* the ways trigger_qwen_code ends: the agent ran to its end and exited with
\* status 0 or with another status, the command is missing, communicate()
\* timed out and the process was killed, another error inside the try block;
\* prompt_error: prompt_file.write_text, which stands before the try block,
\* raised
Outcomes == {"completed", "nonzero", "not_found", "timeout", "error", "prompt_error"}

\* what trigger_qwen_code returns and logs for an outcome, and what run does
\* with the return value: communicate() returning is logged as qwen_completed
\* and returns True (the exit status is not read); the except clauses log
\* qwen_error and return False; run updates the dashboard on True.
\* popen counts the calls of subprocess.Popen, prompt is the text handed to
\* it through communicate(input=prompt).
DispatchReport(outcome, batch) ==
    LET returned == outcome \in {"completed", "nonzero"}
        called == outcome # "prompt_error"
    IN  [ret |-> returned,
         event |-> IF returned THEN "qwen_completed"
                   ELSE IF outcome = "prompt_error" THEN "none" ELSE "qwen_error",
         killed |-> (outcome = "timeout"),
         dashboard |-> returned,
         popen |-> IF called THEN 1 ELSE 0,
         prompt |-> IF called THEN BuildQwenPrompt(batch) ELSE NoPrompt]

\* the exceptions of trigger_qwen_code that its except clauses catch: those
\* raised inside the try block
DispatchCaught(outcome) == outcome # "prompt_error"

\* a dispatch that files the tasks it was given: on success the batch leaves
\* Needs_Action
ODispatchMoves(outcome) ==
    /\ o_pc = "dispatch"
    /\ o_outcome' = outcome
    /\ o_report' = DispatchReport(outcome, o_batch)
    /\ o_pc' = IF DispatchCaught(outcome) THEN "sleep" ELSE "dead"
    /\ na' = IF outcome = "completed"
             THEN [x \in (DOMAIN na) \ o_batch |-> na[x]]
             ELSE na
    /\ UNCHANGED <<o_processed, o_batch, o_ret, o_redo>>
    /\ UNCHANGED <<o_scans, o_prev, o_restarts>>
    /\ UNCHANGED <<storeVars, watchVars, schedVars, textVars, mcpVars>>

\* run: success = self.trigger_qwen_code(new_tasks); on success the dashboard
\* is updated and the loop waits 5 s. No path touches processed_files. An
\* exception that leaves trigger_qwen_code is re-raised by run: the loop and
\* the process end.
ODispatch(outcome) ==
    /\ o_pc = "dispatch"
    /\ o_outcome' = outcome
    /\ o_report' = DispatchReport(outcome, o_batch)
    /\ o_pc' = IF DispatchCaught(outcome) THEN "sleep" ELSE "dead"
    /\ UNCHANGED <<na, o_processed, o_batch, o_ret, o_redo>>
    /\ UNCHANGED <<o_scans, o_prev, o_restarts>>
    /\ UNCHANGED <<storeVars, watchVars, schedVars, textVars, mcpVars>>

\* run: time.sleep(self.check_interval)
OSleep ==
    /\ o_pc = "sleep"
    /\ o_pc' = "scan"
    /\ UNCHANGED <<na, o_processed, o_batch, o_outcome, o_ret, o_redo>>
    /\ UNCHANGED <<o_report, o_scans, o_prev, o_restarts>>
    /\ UNCHANGED <<storeVars, watchVars, schedVars, textVars, mcpVars>>

\* a producer's write_text makes a file of Needs_Action: a reader may meet it
\* in any state of Contents
Produce(n, c) ==
    /\ n \notin DOMAIN na
    /\ na' = [x \in (DOMAIN na) \cup {n} |-> IF x = n THEN c ELSE na[x]]
    /\ UNCHANGED <<o_processed, o_pc, o_batch, o_outcome, o_ret, o_redo>>
    /\ UNCHANGED <<o_report, o_scans, o_prev, o_restarts>>
    /\ UNCHANGED <<storeVars, watchVars, schedVars, textVars, mcpVars>>

\* the producer has written the beginning of a file it had created
WritePart(n) ==
    /\ n \in DOMAIN na
    /\ na[n] = "empty"
    /\ na' = [na EXCEPT ![n] = "partial"]
    /\ UNCHANGED <<o_processed, o_pc, o_batch, o_outcome, o_ret, o_redo>>
    /\ UNCHANGED <<o_report, o_scans, o_prev, o_restarts>>
    /\ UNCHANGED <<storeVars, watchVars, schedVars, textVars, mcpVars>>

\* the producer completes a file it had started
Finish(n) ==
    /\ n \in DOMAIN na
    /\ na[n] \in {"empty", "partial", "unreadable"}
    /\ na' = [na EXCEPT ![n] = "content"]
    /\ UNCHANGED <<o_processed, o_pc, o_batch, o_outcome, o_ret, o_redo>>
    /\ UNCHANGED <<o_report, o_scans, o_prev, o_restarts>>
    /\ UNCHANGED <<storeVars, watchVars, schedVars, textVars, mcpVars>>

\* the external agent moves a file it has handled out of Needs_Action
AgentMove(n) ==
    /\ n \in DOMAIN na
    /\ na' = [x \in (DOMAIN na) \ {n} |-> na[x]]
    /\ UNCHANGED <<o_processed, o_pc, o_batch, o_outcome, o_ret, o_redo>>
    /\ UNCHANGED <<o_report, o_scans, o_prev, o_restarts>>
    /\ UNCHANGED <<storeVars, watchVars, schedVars, textVars, mcpVars>>

\* Orchestrator.__init__ of a newly started process: self.processed_files =
\* set(), whatever the process before it had dispatched
InitProcessedKept(old) == old

InitProcessed(old) == {}

\* the Orchestrator process ends and a new one is started on the same vault
ORestart ==
    /\ o_restarts < MaxRestarts
    /\ o_restarts' = o_restarts + 1
    /\ o_prev' = o_prev \cup o_processed
    /\ o_processed' = InitProcessed(o_processed)
    /\ o_pc' = "scan"
    /\ o_batch' = {}
    /\ o_outcome' = "none"
    /\ o_report' = NoReport
    /\ o_ret' = [n \in TaskNames |-> 0]
    /\ o_redo' = {}
    /\ o_scans' = 0
    /\ UNCHANGED na
    /\ UNCHANGED <<storeVars, watchVars, schedVars, textVars, mcpVars>>

\* the states files are produced in: a .md file in any state a reader may
\* meet first, another file complete (the scan does not open it)
ProducedAs(n) == IF IsMd(n) THEN {"empty", "unreadable", "blank", "content"} ELSE {"content"}

OrchNext ==
    \/ OScan
    \/ \E o \in Outcomes : ODispatch(o)
    \/ OSleep
    \/ \E n \in TaskNames : \E c \in ProducedAs(n) : Produce(n, c)
    \/ \E n \in TaskNames : WritePart(n)
    \/ \E n \in TaskNames : Finish(n)
    \/ \E n \in TaskNames : AgentMove(n)
    \/ ORestart

\* ================================================================ Watchers
MaxCopy == 1      \* nesting of "processed_" copies followed in the inbox

\* content hashes of dropped files, and Gmail message ids in listing order
Hashes == {"h1", "h2"}

MsgOrder == <<"m1", "m2">>

Msgs == {MsgOrder[i] : i \in 1..Len(MsgOrder)}

Ids == Hashes \cup Msgs

\* an inbox file: "processed_" * copy + base
InboxNames == [base : {"a", "b"}, copy : 0..MaxCopy]

Counters == [i \in Ids |-> 0]

CountUp(cnt, S) == [i \in Ids |-> IF i \in S THEN Bump(cnt[i]) ELSE cnt[i]]

\* --------------------------------------------------------- FileSystemWatcher
\* self.processed_files[file_hash] = filepath.name
FSRecordNot(proc, hs) == proc

FSRecord(proc, hs) == proc \cup hs

\* a poll that returns every hash it could read
FSNewHashesAll(dir, ok, proc) == {dir[n] : n \in ok}

\* check_for_updates: the hashes that can be read (ok: the files whose read did
\* not fail) and are not in processed_files; one path is returned per hash
FSNewHashes(dir, ok, proc) == {dir[n] : n \in ok} \ proc

\* the user drops a file, or an editor rewrites one (a copy in progress shows
\* as a content of its own)
DropFile(n, h) ==
    /\ which = "fs"
    /\ n.copy = 0
    /\ n \notin w_copying
    /\ ~(n \in DOMAIN inbox /\ inbox[n] = h)
    /\ inbox' = [x \in (DOMAIN inbox) \cup {n} |-> IF x = n THEN h ELSE inbox[x]]
    /\ UNCHANGED <<which, fs_processed, gm_unread, gm_important, gm_processed, gm_file,
                   w_pc, w_queue, w_seen, w_ok, w_ret, w_created>>
    /\ UNCHANGED <<gm_old, gm_file_old, w_err, w_restarts, w_copying>>
    /\ UNCHANGED <<gm_saves, gm_doc>>
    /\ UNCHANGED <<storeVars, orchVars, schedVars, textVars, mcpVars>>

RemoveFile(n) ==
    /\ which = "fs"
    /\ n \in DOMAIN inbox
    /\ inbox' = [x \in (DOMAIN inbox) \ {n} |-> inbox[x]]
    /\ w_copying' = w_copying \ {n}
    /\ UNCHANGED <<which, fs_processed, gm_unread, gm_important, gm_processed, gm_file,
                   w_pc, w_queue, w_seen, w_ok, w_ret, w_created>>
    /\ UNCHANGED <<gm_old, gm_file_old, w_err, w_restarts>>
    /\ UNCHANGED <<gm_saves, gm_doc>>
    /\ UNCHANGED <<storeVars, orchVars, schedVars, textVars, mcpVars>>

\* A large file is being copied into the inbox: it shows under its name with
\* the bytes written so far (whose hash is h) until the copy is through.
StartCopy(n, h) ==
    /\ which = "fs"
    /\ n.copy = 0
    /\ n \notin DOMAIN inbox
    /\ inbox' = [x \in (DOMAIN inbox) \cup {n} |-> IF x = n THEN h ELSE inbox[x]]
    /\ w_copying' = w_copying \cup {n}
    /\ UNCHANGED <<which, fs_processed, gm_unread, gm_important, gm_processed, gm_file,
                   w_pc, w_queue, w_seen, w_ok, w_ret, w_created>>
    /\ UNCHANGED <<gm_old, gm_file_old, w_err, w_restarts>>
    /\ UNCHANGED <<gm_saves, gm_doc>>
    /\ UNCHANGED <<storeVars, orchVars, schedVars, textVars, mcpVars>>

\* the copy is through: the file has its whole content, with another hash
FinishCopy(n, h) ==
    /\ which = "fs"
    /\ n \in w_copying
    /\ inbox[n] # h
    /\ inbox' = [inbox EXCEPT ![n] = h]
    /\ w_copying' = w_copying \ {n}
    /\ UNCHANGED <<which, fs_processed, gm_unread, gm_important, gm_processed, gm_file,
                   w_pc, w_queue, w_seen, w_ok, w_ret, w_created>>
    /\ UNCHANGED <<gm_old, gm_file_old, w_err, w_restarts>>
    /\ UNCHANGED <<gm_saves, gm_doc>>
    /\ UNCHANGED <<storeVars, orchVars, schedVars, textVars, mcpVars>>

\* what the except clauses around a poll catch: `except Exception` in
\* FileSystemWatcher.check_for_updates, `except HttpError` and
\* `except Exception` in GmailWatcher.check_for_updates
PollCaughtHttpOnly(w, err) == w = "gmail" /\ err \in {"HttpError401", "HttpError"}

PollCaught(w, err) == TRUE

\* items = watcher.check_for_updates(); readable are the files _get_file_hash
\* could read (all the files listed before iterdir raised, where err is
\* "OSError"), pick the path returned for each new hash
FSCheckForUpdates(readable, pick, err) ==
    /\ which = "fs"
    /\ w_pc = "poll"
    /\ w_err' = err
    /\ LET new == FSNewHashes(inbox, readable, fs_processed)
           derived == {inbox[n] : n \in readable}
       IN  /\ \A h \in new : pick[h] \in readable /\ inbox[pick[h]] = h
           /\ \A h \in Hashes \ new : pick[h] = [base |-> "a", copy |-> 0]
           /\ fs_processed' = FSRecord(fs_processed, new)
           /\ w_queue' = {[path |-> pick[h], id |-> h] : h \in new}
           /\ w_seen' = CountUp(w_seen, derived)
           /\ w_ok' = CountUp(w_ok, derived)
           /\ w_ret' = CountUp(w_ret, new)
           /\ w_pc' = IF err # "none" /\ ~PollCaught("fs", err) THEN "dead"
                      ELSE IF new = {} THEN "poll" ELSE "create"
    /\ UNCHANGED <<which, inbox, gm_unread, gm_important, gm_processed, gm_file, w_created>>
    /\ UNCHANGED <<gm_old, gm_file_old, w_restarts, w_copying>>
    /\ UNCHANGED <<gm_saves, gm_doc>>
    /\ UNCHANGED <<storeVars, orchVars, schedVars, textVars, mcpVars>>

\* create_action_file(item): the action file is written into Needs_Action, then
\* the original is copied to Inbox/processed_<name> (a failing copy is logged)
FSCreateActionFile(item) ==
    /\ which = "fs"
    /\ w_pc = "create"
    /\ item \in w_queue
    /\ w_created' = CountUp(w_created, {item.id})
    /\ LET dest == [base |-> item.path.base, copy |-> item.path.copy + 1]
       IN  inbox' = IF item.path \in DOMAIN inbox /\ dest \in InboxNames
                    THEN [x \in (DOMAIN inbox) \cup {dest} |->
                            IF x = dest THEN inbox[item.path] ELSE inbox[x]]
                    ELSE inbox
    /\ w_queue' = w_queue \ {item}
    /\ w_pc' = IF w_queue \ {item} = {} THEN "poll" ELSE "create"
    /\ UNCHANGED <<which, fs_processed, gm_unread, gm_important, gm_processed, gm_file,
                   w_seen, w_ok, w_ret>>
    /\ UNCHANGED <<gm_old, gm_file_old, w_err, w_restarts, w_copying>>
    /\ UNCHANGED <<gm_saves, gm_doc>>
    /\ UNCHANGED <<storeVars, orchVars, schedVars, textVars, mcpVars>>

\* --------------------------------------------------------------- GmailWatcher
CacheCap == 1000

\* the two copies of the class: src/watchers/gmail_watcher.py and the script of
\* the gmail-watcher skill
GmailWatchers == {"gmail", "gmail_skill"}

\* self.processed_ids.add(msg_id)
GmRecordNot(proc, m) == proc

GmRecord(proc, m) == proc \cup {m}

\* the for loop of check_for_updates over the listed messages: a processed id
\* is skipped, messages().get() raises for the message fail, an important
\* message is appended to new_emails and recorded.
RECURSIVE GmLoop(_, _, _, _, _, _)
GmLoop(msgs, proc, acc, handled, fail, imp) ==
    IF msgs = <<>>
    THEN [new |-> acc, proc |-> proc, handled |-> handled, raised |-> FALSE]
    ELSE LET m == Head(msgs)
         IN  IF m \in proc
             THEN GmLoop(Tail(msgs), proc, acc, handled \cup {m}, fail, imp)
             ELSE IF m = fail
             THEN [new |-> acc, proc |-> proc, handled |-> handled, raised |-> TRUE]
             ELSE IF m \in imp
             THEN GmLoop(Tail(msgs), GmRecord(proc, m), acc \cup {m}, handled \cup {m}, fail, imp)
             ELSE GmLoop(Tail(msgs), proc, acc, handled, fail, imp)

\* _save_processed_ids: list(self.processed_ids)[-1000:] in the set's
\* iteration order; the lists the file may hold. ids are the ids of the
\* modelled messages, old the number of further ids (of messages the mailbox
\* no longer lists) the set holds.
SavedIds(ids, old) ==
    IF Cardinality(ids) + old <= CacheCap
    THEN {[ids |-> ids, old |-> old]}
    ELSE {[ids |-> S, old |-> CacheCap - Cardinality(S)] :
             S \in {T \in SUBSET ids : CacheCap - Cardinality(T) <= old}}

\* what processed_emails.json may be when a process starts: missing; not JSON
\* (garbage, which an empty or cut-off file is too); JSON that is not an object
\* (array); an object without 'ids' (no_ids); an object whose 'ids' is null
\* (ids_null); an object with a list of ids (object); a file in a directory
\* whose stat is refused (no_access)
DocKinds == {"missing", "garbage", "array", "no_ids", "ids_null", "object", "no_access"}

Unparseable == {"garbage", "array", "ids_null"}

\* the exception the body of the try block of _load_processed_ids raises:
\* json.load on garbage, data.get on a list, set(None)
LoadException(doc) ==
    CASE doc = "garbage" -> "JSONDecodeError"
      [] doc = "array" -> "AttributeError"
      [] doc = "ids_null" -> "TypeError"
      [] OTHER -> "none"

LoadCaughtDecodeOnly(exc) == exc = "JSONDecodeError"

\* `except Exception: pass`
LoadCaught(exc) == TRUE

\* _load_processed_ids: exists() raises where stat is refused, before the try
\* block; a missing file and a caught exception fall through to
\* `return set()`; otherwise set(data.get('ids', []))
LoadProcessedIds(doc, ids, old) ==
    IF doc = "no_access"
    THEN [ids |-> {}, old |-> 0, raised |-> TRUE]
    ELSE IF doc = "missing"
    THEN [ids |-> {}, old |-> 0, raised |-> FALSE]
    ELSE IF LoadException(doc) # "none"
    THEN [ids |-> {}, old |-> 0, raised |-> ~LoadCaught(LoadException(doc))]
    ELSE IF doc = "no_ids"
    THEN [ids |-> {}, old |-> 0, raised |-> FALSE]
    ELSE [ids |-> ids, old |-> old, raised |-> FALSE]

\* self.processed_ids.add(msg_id) of a running process
CacheAdd(m) ==
    /\ which = "gmail"
    /\ w_pc \in {"run", "saved", "loaded"}
    /\ m \notin gm_processed
    /\ gm_processed' = GmRecord(gm_processed, m)
    /\ w_pc' = "run"
    /\ UNCHANGED <<which, inbox, fs_processed, gm_unread, gm_important, gm_file,
                   w_queue, w_seen, w_ok, w_ret, w_created>>
    /\ UNCHANGED <<gm_old, gm_file_old, w_err, w_restarts, w_copying, gm_saves, gm_doc>>
    /\ UNCHANGED <<storeVars, orchVars, schedVars, textVars, mcpVars>>

\* self._save_processed_ids()
CacheSave ==
    /\ which = "gmail"
    /\ w_pc \in {"run", "loaded"}
    /\ \E f \in SavedIds(gm_processed, gm_old) : gm_file' = f.ids /\ gm_file_old' = f.old
    /\ gm_doc' = "object"
    /\ w_pc' = "saved"
    /\ UNCHANGED <<which, inbox, fs_processed, gm_unread, gm_important, gm_processed,
                   w_queue, w_seen, w_ok, w_ret, w_created>>
    /\ UNCHANGED <<gm_old, w_err, w_restarts, w_copying, gm_saves>>
    /\ UNCHANGED <<storeVars, orchVars, schedVars, textVars, mcpVars>>

\* the process ends
CacheStop ==
    /\ which = "gmail"
    /\ w_pc \in {"run", "saved", "loaded", "dead"}
    /\ w_pc' = "stopped"
    /\ UNCHANGED <<which, inbox, fs_processed, gm_unread, gm_important, gm_processed,
                   gm_file, w_queue, w_seen, w_ok, w_ret, w_created>>
    /\ UNCHANGED <<gm_old, gm_file_old, w_err, w_restarts, w_copying, gm_saves, gm_doc>>
    /\ UNCHANGED <<storeVars, orchVars, schedVars, textVars, mcpVars>>

\* while no process runs the file is deleted, overwritten or locked away
CacheDamage(doc) ==
    /\ which = "gmail"
    /\ w_pc = "stopped"
    /\ doc \notin {"object", gm_doc}
    /\ gm_doc' = doc
    /\ gm_file' = {}
    /\ gm_file_old' = 0
    /\ UNCHANGED <<which, inbox, fs_processed, gm_unread, gm_important, gm_processed,
                   w_pc, w_queue, w_seen, w_ok, w_ret, w_created>>
    /\ UNCHANGED <<gm_old, w_err, w_restarts, w_copying, gm_saves>>
    /\ UNCHANGED <<storeVars, orchVars, schedVars, textVars, mcpVars>>

\* GmailWatcher.__init__ of a new process:
\* self.processed_ids = self._load_processed_ids()
CacheLoad ==
    /\ which = "gmail"
    /\ w_pc = "stopped"
    /\ LET r == LoadProcessedIds(gm_doc, gm_file, gm_file_old)
       IN  /\ gm_processed' = r.ids
           /\ gm_old' = r.old
           /\ w_pc' = IF r.raised THEN "dead" ELSE "loaded"
    /\ UNCHANGED <<which, inbox, fs_processed, gm_unread, gm_important, gm_file,
                   w_queue, w_seen, w_ok, w_ret, w_created>>
    /\ UNCHANGED <<gm_file_old, w_err, w_restarts, w_copying, gm_saves, gm_doc>>
    /\ UNCHANGED <<storeVars, orchVars, schedVars, textVars, mcpVars>>

CacheNext ==
    \/ \E m \in Msgs : CacheAdd(m)
    \/ CacheSave
    \/ CacheStop
    \/ \E doc \in DocKinds : CacheDamage(doc)
    \/ CacheLoad

\* the messages list of the API, in listing order
Listing(unread) == SelectSeq(MsgOrder, LAMBDA m : m \in unread)

NewMail(m) ==
    /\ which \in GmailWatchers
    /\ m \notin gm_unread
    /\ gm_unread' = gm_unread \cup {m}
    /\ UNCHANGED <<which, inbox, fs_processed, gm_important, gm_processed, gm_file,
                   w_pc, w_queue, w_seen, w_ok, w_ret, w_created>>
    /\ UNCHANGED <<gm_old, gm_file_old, w_err, w_restarts, w_copying>>
    /\ UNCHANGED <<gm_saves, gm_doc>>
    /\ UNCHANGED <<storeVars, orchVars, schedVars, textVars, mcpVars>>

MarkRead(m) ==
    /\ which \in GmailWatchers
    /\ m \in gm_unread
    /\ gm_unread' = gm_unread \ {m}
    /\ UNCHANGED <<which, inbox, fs_processed, gm_important, gm_processed, gm_file,
                   w_pc, w_queue, w_seen, w_ok, w_ret, w_created>>
    /\ UNCHANGED <<gm_old, gm_file_old, w_err, w_restarts, w_copying>>
    /\ UNCHANGED <<gm_saves, gm_doc>>
    /\ UNCHANGED <<storeVars, orchVars, schedVars, textVars, mcpVars>>

\* the exceptions a Gmail API call ends with: HttpError with status 401 (the
\* handler calls authenticate()), another HttpError, any other exception
GmErrors == {"HttpError401", "HttpError", "Exception"}

\* the last statement of the try block of check_for_updates, reached when
\* nothing raised before it: `if new_emails: self._save_processed_ids()` in
\* watchers/gmail_watcher.py, `self._save_processed_ids()` without a
\* condition in the gmail-watcher skill
SavesCache(w, new, raised) == ~raised /\ (w = "gmail_skill" \/ new # {})

\* emails = self.check_for_updates(); fail is the message whose fetch raises
\* ("none": no fetch fails; "list": messages().list() itself raises), err the
\* exception it raises
GmailCheckForUpdates(fail, err) ==
    /\ which \in GmailWatchers
    /\ w_pc = "poll"
    /\ LET listed == IF fail = "list" THEN <<>> ELSE Listing(gm_unread)
           r == GmLoop(listed, gm_processed, {}, {}, fail, gm_important)
           raised == fail = "list" \/ r.raised
           saved == IF SavesCache(which, r.new, raised)
                    THEN SavedIds(r.proc, gm_old)
                    ELSE {[ids |-> gm_file, old |-> gm_file_old]}
       IN  /\ IF raised THEN err \in GmErrors ELSE err = "none"
           /\ SavesCache(which, r.new, raised) => gm_saves < MaxSaves
           /\ w_err' = err
           /\ gm_processed' = r.proc
           /\ \E f \in saved : gm_file' = f.ids /\ gm_file_old' = f.old
           /\ gm_saves' = IF SavesCache(which, r.new, raised) THEN gm_saves + 1 ELSE gm_saves
           /\ gm_doc' = IF SavesCache(which, r.new, raised) THEN "object" ELSE gm_doc
           /\ w_queue' = {[path |-> [base |-> "a", copy |-> 0], id |-> m] : m \in r.new}
           /\ w_seen' = CountUp(w_seen, {listed[i] : i \in 1..Len(listed)})
           /\ w_ok' = CountUp(w_ok, r.handled)
           /\ w_ret' = CountUp(w_ret, r.new)
           /\ w_pc' = IF raised /\ ~PollCaught("gmail", err) THEN "dead"
                      ELSE IF r.new = {} THEN "poll" ELSE "create"
    /\ UNCHANGED <<which, inbox, fs_processed, gm_unread, gm_important, w_created>>
    /\ UNCHANGED <<gm_old, w_restarts, w_copying>>
    /\ UNCHANGED <<storeVars, orchVars, schedVars, textVars, mcpVars>>

\* run: for email in emails: filepath = self.create_action_file(email).
\* written: write_text wrote the file; otherwise create_action_file raised,
\* the `except Exception` of run printed the error and run returned ("ended")
GmailCreateActionFile(item, written) ==
    /\ which \in GmailWatchers
    /\ w_pc = "create"
    /\ item \in w_queue
    /\ w_created' = IF written THEN CountUp(w_created, {item.id}) ELSE w_created
    /\ w_queue' = IF written THEN w_queue \ {item} ELSE {}
    /\ w_pc' = IF ~written THEN "ended"
               ELSE IF w_queue \ {item} = {} THEN "poll" ELSE "create"
    /\ UNCHANGED <<which, inbox, fs_processed, gm_unread, gm_important, gm_processed,
                   gm_file, w_seen, w_ok, w_ret>>
    /\ UNCHANGED <<gm_old, gm_file_old, w_err, w_restarts, w_copying>>
    /\ UNCHANGED <<gm_saves, gm_doc>>
    /\ UNCHANGED <<storeVars, orchVars, schedVars, textVars, mcpVars>>

WatchNext ==
    \/ \E n \in InboxNames, h \in Hashes : DropFile(n, h)
    \/ \E n \in InboxNames : RemoveFile(n)
    \/ \E ok \in SUBSET DOMAIN inbox, pick \in [Hashes -> InboxNames],
          err \in {"none", "OSError"} : FSCheckForUpdates(ok, pick, err)
    \/ \E item \in w_queue : FSCreateActionFile(item)
    \/ \E m \in Msgs : NewMail(m)
    \/ \E m \in Msgs : MarkRead(m)
    \/ \E fail \in Msgs \cup {"none", "list"}, err \in GmErrors \cup {"none"} :
          GmailCheckForUpdates(fail, err)
    \/ \E item \in w_queue, written \in BOOLEAN : GmailCreateActionFile(item, written)

\* The watcher process ends and a new one is started on the same vault:
\* FileSystemWatcher.__init__ sets processed_files = {}, GmailWatcher.__init__
\* loads processed_ids from the cache file; the files in Needs_Action stay.
LoadedOnStart(w, kept, saved) == IF w = "gmail" THEN saved ELSE {}

WatcherRestart ==
    /\ which \in {"fs", "gmail"}
    /\ w_pc \in {"poll", "dead", "ended"}
    /\ w_restarts < MaxRestarts
    /\ w_restarts' = w_restarts + 1
    /\ fs_processed' = LoadedOnStart("fs", fs_processed, {})
    /\ gm_processed' = LoadedOnStart("gmail", gm_processed, gm_file)
    /\ gm_old' = gm_file_old
    /\ w_pc' = "poll"
    /\ w_err' = "none"
    /\ UNCHANGED <<which, inbox, gm_unread, gm_important, gm_file, gm_file_old,
                   w_queue, w_seen, w_ok, w_ret, w_created, w_copying>>
    /\ UNCHANGED <<gm_saves, gm_doc>>
    /\ UNCHANGED <<storeVars, orchVars, schedVars, textVars, mcpVars>>

\* the FileSystemWatcher while files are copied into its inbox
CopyNext ==
    \/ \E n \in InboxNames, h \in Hashes : StartCopy(n, h)
    \/ \E n \in InboxNames, h \in Hashes : FinishCopy(n, h)
    \/ \E n \in InboxNames : RemoveFile(n)
    \/ \E ok \in SUBSET DOMAIN inbox, pick \in [Hashes -> InboxNames],
          err \in {"none", "OSError"} : FSCheckForUpdates(ok, pick, err)
    \/ \E item \in w_queue : FSCreateActionFile(item)

\* a message the API lists and whose messages().get() or _is_important raises
\* whenever it is tried: the first of the listing
BrokenMsg == MsgOrder[1]

\* the GmailWatcher on a mailbox where only that message can fail
MailPoll == \E fail \in {"none", BrokenMsg}, err \in GmErrors \cup {"none"} :
                GmailCheckForUpdates(fail, err)

MailCreate == \E item \in w_queue, written \in BOOLEAN : GmailCreateActionFile(item, written)

MailNext ==
    \/ \E m \in Msgs : NewMail(m)
    \/ \E m \in Msgs : MarkRead(m)
    \/ MailPoll
    \/ MailCreate

\* the GmailWatcher of the gmail-watcher skill
SkillNext ==
    \/ \E m \in Msgs : NewMail(m)
    \/ \E m \in Msgs : MarkRead(m)
    \/ \E fail \in Msgs \cup {"none", "list"}, err \in GmErrors \cup {"none"} :
          GmailCheckForUpdates(fail, err)
    \/ \E item \in w_queue, written \in BOOLEAN : GmailCreateActionFile(item, written)

LifeNext ==
    \/ WatchNext
    \/ WatcherRestart

\* =============================================================== Scheduler
\* Texts are sequences of one-character strings, so that startswith, split,
\* int() and strftime are computed as the code computes them.
MaxCalls == 2         \* run_due_tasks invocations modelled in one clock minute

\* self.tasks of Scheduler.__init__
tasks == <<
    [name |-> "daily_briefing", how |-> "script",
     schedule |-> <<"0", "8", ":", "0", "0">>],
    [name |-> "process_pending", how |-> "command",
     schedule |-> <<"*", "/", "3", "0">>],
    [name |-> "weekly_audit", how |-> "script",
     schedule |-> <<"S", "u", "n", "d", "a", "y", " ", "2", "2", ":", "0", "0">>],
    [name |-> "update_dashboard", how |-> "command",
     schedule |-> <<"*", "/", "1", "5">>] >>

JobNames == {tasks[i].name : i \in 1..Len(tasks)}

\* the instants datetime.now() is read at: weekday, hour, minute
Days == {"Sunday", "Monday"}

Hours == {8, 22}

Minutes == {0, 1, 15, 30, 31, 45}

Instants == [day : Days, hour : Hours, minute : Minutes]

DigitChars == <<"0", "1", "2", "3", "4", "5", "6", "7", "8", "9">>

\* now.strftime('%H:%M')
StrfHM(t) ==
    <<DigitChars[(t.hour \div 10) + 1], DigitChars[(t.hour % 10) + 1], ":",
      DigitChars[(t.minute \div 10) + 1], DigitChars[(t.minute % 10) + 1]>>

\* now.strftime('%A')
StrfDay(t) ==
    IF t.day = "Sunday" THEN <<"S", "u", "n", "d", "a", "y">>
                        ELSE <<"M", "o", "n", "d", "a", "y">>

\* str.lower()
Lower(s) ==
    [i \in 1..Len(s) |-> IF s[i] = "S" THEN "s" ELSE IF s[i] = "M" THEN "m" ELSE s[i]]

\* str.startswith(prefix)
StartsWith(s, prefix) ==
    Len(s) >= Len(prefix) /\ SubSeq(s, 1, Len(prefix)) = prefix

\* int(text) for an unsigned decimal; -1 stands for ValueError
RECURSIVE ToInt(_, _)
ToInt(s, acc) ==
    IF s = <<>>
    THEN acc
    ELSE LET ds == {d \in 0..9 : DigitChars[d + 1] = Head(s)}
         IN  IF ds = {}
             THEN -1
             ELSE ToInt(Tail(s), 10 * (IF acc < 0 THEN 0 ELSE acc) + CHOOSE d \in ds : TRUE)

\* str.split(' '): the fields between the blanks
RECURSIVE SplitBlank(_, _, _)
SplitBlank(s, cur, acc) ==
    IF s = <<>>
    THEN Append(acc, cur)
    ELSE IF Head(s) = " "
    THEN SplitBlank(Tail(s), <<>>, Append(acc, cur))
    ELSE SplitBlank(Tail(s), Append(cur, Head(s)), acc)

\* the due test of run_due_tasks for one schedule text at the instant t:
\* "run", "skip", or "raise" where int(), % or the tuple unpacking raises
ShouldRunAlways(schedule, t) == "run"

ShouldRun(schedule, t) ==
    IF StartsWith(schedule, <<"*", "/">>)
    THEN LET interval == ToInt(SubSeq(schedule, 3, Len(schedule)), -1)
         IN  IF interval <= 0
             THEN "raise"
             ELSE IF t.minute % interval = 0 THEN "run" ELSE "skip"
    ELSE IF \E i \in 1..Len(schedule) : schedule[i] = " "
    THEN LET parts == SplitBlank(schedule, <<>>, <<>>)
         IN  IF Len(parts) # 2
             THEN "raise"
             ELSE IF Lower(parts[1]) = Lower(StrfDay(t)) /\ parts[2] = StrfHM(t)
                  THEN "run" ELSE "skip"
    ELSE IF schedule = StrfHM(t) THEN "run" ELSE "skip"

\* the ways the body of run_task ends for a task: the process exits with 0 or
\* not, subprocess.run raises TimeoutExpired or another exception, the script
\* file does not exist
RunOutcomes(task) ==
    {"exit0", "exit1", "timeout", "raise"} \cup
        (IF task.how = "script" THEN {"missing"} ELSE {})

\* run_task: except subprocess.TimeoutExpired / except Exception
CaughtTimeoutOnly(outcome) == outcome # "raise"

Caught(outcome) == TRUE

\* the result dictionary of run_task; logged: log_task_run could append its
\* line (its own except keeps a failed write from raising)
RunTask(task, outcome, logok) ==
    [task |-> task.name,
     success |-> (outcome = "exit0"),
     error |-> CASE outcome = "exit0" -> "none"
                 [] outcome = "exit1" -> "stderr"
                 [] outcome = "timeout" -> "Task timed out after 300 seconds"
                 [] outcome = "missing" -> "Script not found"
                 [] OTHER -> "str(e)",
     logged |-> logok]

NoRuns == [n \in JobNames |-> 0]

\* time passes between two invocations of the scheduler
SchAdvance(t) ==
    /\ s_pc = "idle"
    /\ t # s_clock
    /\ s_clock' = t
    /\ s_execs' = NoRuns
    /\ s_calls' = 0
    /\ UNCHANGED <<s_pc, s_now, s_idx, s_results>>
    /\ UNCHANGED <<storeVars, orchVars, watchVars, textVars, mcpVars>>

\* run_due_tasks: now = datetime.now(); results = []
RunDueTasks ==
    /\ s_pc = "idle"
    /\ s_calls < MaxCalls
    /\ s_now' = s_clock
    /\ s_idx' = 1
    /\ s_results' = <<>>
    /\ s_pc' = "loop"
    /\ s_calls' = s_calls + 1
    /\ UNCHANGED <<s_clock, s_execs>>
    /\ UNCHANGED <<storeVars, orchVars, watchVars, textVars, mcpVars>>

\* one pass of `for task in self.tasks`: the due test, and for a due task
\* run_task(task) and results.append(result)
SchLoop(outcome, logok) ==
    /\ s_pc = "loop"
    /\ s_idx <= Len(tasks)
    /\ LET task == tasks[s_idx]
           due == ShouldRun(task.schedule, s_now)
       IN  /\ IF due = "run" THEN outcome \in RunOutcomes(task)
                             ELSE outcome = "none" /\ logok
           /\ IF due = "raise"
              THEN /\ s_pc' = "raised"
                   /\ UNCHANGED <<s_idx, s_results, s_execs>>
              ELSE IF due = "skip"
              THEN /\ s_idx' = s_idx + 1
                   /\ UNCHANGED <<s_pc, s_results, s_execs>>
              ELSE IF Caught(outcome)
              THEN /\ s_results' = Append(s_results, RunTask(task, outcome, logok))
                   /\ s_execs' = [s_execs EXCEPT ![task.name] = @ + 1]
                   /\ s_idx' = s_idx + 1
                   /\ UNCHANGED s_pc
              ELSE /\ s_pc' = "raised"
                   /\ s_execs' = [s_execs EXCEPT ![task.name] = @ + 1]
                   /\ UNCHANGED <<s_idx, s_results>>
    /\ UNCHANGED <<s_clock, s_now, s_calls>>
    /\ UNCHANGED <<storeVars, orchVars, watchVars, textVars, mcpVars>>

\* return results: the loop is through and the caller has the list
Returned == s_pc = "loop" /\ s_idx > Len(tasks)

\* main: the process prints the count and ends
SchExit ==
    /\ Returned \/ s_pc = "raised"
    /\ s_pc' = "idle"
    /\ s_idx' = 1
    /\ s_results' = <<>>
    /\ UNCHANGED <<s_clock, s_now, s_execs, s_calls>>
    /\ UNCHANGED <<storeVars, orchVars, watchVars, textVars, mcpVars>>

SchedNext ==
    \/ \E t \in Instants : SchAdvance(t)
    \/ RunDueTasks
    \/ \E outcome \in {"none", "exit0", "exit1", "timeout", "raise", "missing"},
          logok \in BOOLEAN : SchLoop(outcome, logok)
    \/ SchExit


\* ======================================================= item file format
\* An item file is a sequence of lines. A line "key: text" is the record of
\* its key and text; a line without a key has the key "". The creators build
\* the text with f-strings: a value that holds line breaks puts its further
\* lines into the file as lines of their own.
MaxLines == 2         \* lines after the first in a value handed to a creator

Line(k, x) == [key |-> k, text |-> x, len |-> 10]

\* the "---" line that opens and closes the metadata header
Fence == [key |-> "", text |-> "---", len |-> 3]

\* the lines a value can go on with after a line break: plain text, a line
\* of three dashes, a line that reads "status: done", a line of 100 characters
ValueLines == {Line("", "text"), Fence, Line("status", "done"),
               [key |-> "", text |-> "long", len |-> 100]}

\* a string handed to a creator: its first line and the lines after it
Values == [first : {"text"}, rest : UNION {[1..k -> ValueLines] : k \in 0..MaxLines}]

PlainValue == [first |-> "text", rest |-> <<>>]

\* f"{key}: {value}": the value's first line follows the key, the others
\* are lines of their own
Field(k, v) == <<Line(k, v.first)>> \o v.rest

\* value[:100], counted in characters with one for each line break; the
\* first line of a value is 10 characters long
RECURSIVE Keep(_, _)
Keep(lines, room) ==
    IF lines = <<>> \/ room <= 1
    THEN <<>>
    ELSE LET l == Head(lines)
         IN  IF l.len <= room - 1
             THEN <<l>> \o Keep(Tail(lines), room - 1 - l.len)
             ELSE <<[key |-> "", text |-> "cut", len |-> room - 1]>>

Slice100(v) == [first |-> v.first, rest |-> Keep(v.rest, 90)]

\* value + "...": the dots follow the last line, which is then no longer
\* the line it was
Dots(v) ==
    IF v.rest = <<>>
    THEN [first |-> "text...", rest |-> <<>>]
    ELSE [v EXCEPT !.rest[Len(v.rest)] = [key |-> @.key, text |-> "dotted", len |-> @.len + 3]]

\* filepath.suffix.lower(): what follows the last '.' of the name, which the
\* values here have in their first line
Suffix(v) == [first |-> ".ext", rest |-> v.rest]

\* the creators of item files
Creators == {"fs_create_action_file", "gmail_create_action_file",
             "create_approval", "create_plan", "create_post_draft"}

\* The text each creator writes: the header lines of its f-string in their
\* order, then the body.
\* FileSystemWatcher.create_action_file(filepath): name is filepath.name
FileDropText(name) ==
    <<Fence, Line("type", "file_drop")>> \o Field("source_file", name)
    \o Field("file_type", Suffix(name))
    \o <<Line("file_size", "n bytes"), Line("received", "iso"),
         Line("priority", "normal"), Line("status", "pending"), Fence,
         Line("", "body")>>

\* GmailWatcher.create_action_file(message): the From and Subject headers
GmailText(from_email, subject) ==
    <<Fence, Line("type", "gmail_email")>> \o Field("from", from_email)
    \o Field("subject", subject)
    \o <<Line("received", "date"), Line("message_id", "id"),
         Line("priority", "normal"), Line("status", "pending"), Fence,
         Line("", "body")>>

\* ApprovalManager.create_approval(approval_type, action, details, expires_hours)
ApprovalText(approval_type, action) ==
    <<Fence, Line("type", "approval_request")>> \o Field("action_type", approval_type)
    \o Field("action", action)
    \o <<Line("created", "iso"), Line("expires", "iso"),
         Line("status", "pending"), Fence, Line("", "body")>>

\* PlanManager.create_plan(objective, steps, priority, context)
PlanText(objective, priority) ==
    <<Fence, Line("type", "plan")>> \o Field("objective", objective)
    \o <<Line("created", "iso"), Line("status", "in_progress")>>
    \o Field("priority", priority)
    \o <<Fence, Line("", "body")>>

\* LinkedInWatcher.create_post_draft(content, title, hashtags)
PostDraftText(content) ==
    <<Fence, Line("type", "linkedin_post")>> \o Field("content", Dots(Slice100(content)))
    \o <<Line("visibility", "PUBLIC"), Line("created", "iso"),
         Line("status", "pending_approval"), Line("scheduled_for", "iso"),
         Fence, Line("", "body")>>
    \o Field("", content)

\* the text a creator writes for the label and the payload it is given
Template(creator, label, payload) ==
    CASE creator = "fs_create_action_file" -> FileDropText(label)
      [] creator = "gmail_create_action_file" -> GmailText(payload, label)
      [] creator = "create_approval" -> ApprovalText(payload, label)
      [] creator = "create_plan" -> PlanText(label, payload)
      [] OTHER -> PostDraftText(payload)

\* filepath.write_text(content): the creator writes the file
WriteItem ==
    /\ t_pc = "input"
    /\ t_file' = Template(t_creator, t_label, t_payload)
    /\ t_pc' = "written"
    /\ UNCHANGED <<t_creator, t_label, t_payload, p_marks, p_status, p_call>>
    /\ UNCHANGED <<storeVars, orchVars, watchVars, schedVars, mcpVars>>

TextNext == WriteItem

\* ------------------------------------------------- PlanManager.update_step
\* A plan file is its `status:` header line and its step lines
\* "- [m] k. text", k = 1, 2, ...; p_marks[k] is the mark m of step k.
MaxSteps == 2         \* steps of a plan

\* the status argument of update_step
StepStatuses == {"completed", "failed", "skipped"}

NoCall == [step |-> 0, status |-> "none", ok |-> TRUE]

\* checkbox = '[x]' for completed, '[-]' for failed, '[ ]' otherwise
Checkbox(status) ==
    IF status = "completed" THEN "x" ELSE IF status = "failed" THEN "-" ELSE " "

\* line.strip().startswith(f'- [ ] {k}.') or ...startswith(f'- [x] {k}.')
StepFound(marks, k) == k \in 1..Len(marks) /\ marks[k] \in {" ", "x"}

\* completed = the lines that hold '- [x]'; total = the lines that hold '- ['
\* and '.', which the step lines of every mark do
CompletedSteps(marks) == Cardinality({k \in 1..Len(marks) : marks[k] = "x"})

TotalSteps(marks) == Len(marks)

\* update_step(filename, step_number, status): an unknown step returns False
\* and writes nothing; otherwise the step line gets its checkbox, the header
\* line is set to completed when every step line is [x], and is left as it
\* is in every other case
UpdateStep(k, status) ==
    /\ IF StepFound(p_marks, k)
       THEN LET marks == [p_marks EXCEPT ![k] = Checkbox(status)]
            IN  /\ p_marks' = marks
                /\ p_status' = IF CompletedSteps(marks) = TotalSteps(marks)
                                   /\ TotalSteps(marks) > 0
                                THEN "completed"
                                ELSE p_status
                /\ p_call' = [step |-> k, status |-> status, ok |-> TRUE]
       ELSE /\ p_call' = [step |-> k, status |-> status, ok |-> FALSE]
            /\ UNCHANGED <<p_marks, p_status>>
    /\ UNCHANGED <<t_pc, t_creator, t_label, t_payload, t_file>>
    /\ UNCHANGED <<storeVars, orchVars, watchVars, schedVars, mcpVars>>

PlanNext == \E k \in 1..(MaxSteps + 1), status \in StepStatuses : UpdateStep(k, status)

\* the metadata header of a text: the lines between the "---" of its first
\* line and the next "---" line
RECURSIVE UpToFence(_)
UpToFence(lines) ==
    IF lines = <<>> \/ Head(lines) = Fence
    THEN <<>>
    ELSE <<Head(lines)>> \o UpToFence(Tail(lines))

Header(text) ==
    IF text = <<>> \/ Head(text) # Fence THEN <<>> ELSE UpToFence(Tail(text))

HasField(text, k) == \E i \in 1..Len(Header(text)) : Header(text)[i].key = k

\* ------------------------------------------------------------- MCPManager
\* m_live[s] is the set of PIDs of the live processes of server s,
\* m_pidfile[s] the number in <pid_dir>/<s>.pid (0: no such file), m_next
\* the PID the next spawned process gets, m_call the last call and result.
\* Each call is one run of the command line tool.
McpServers == {"browser", "email", "linkedin"}

\* server_config.get('enabled', True) of DEFAULT_CONFIG
McpEnabled == {"browser", "email"}

NoPid == 0

NoMcpCall == [op |-> "none", server |-> "none", ret |-> TRUE,
              spawned |-> FALSE, alive |-> FALSE]

\* what becomes of the process Popen made while start_server sleeps 2 s, and
\* what os.kill(pid, 0) then says of it: it runs; it has exited and is the
\* unreaped child of the caller, which os.kill still finds; it has exited and
\* was reaped; or Popen raised and there is no process
StartOutcomes == {"up", "exited_found", "exited_reaped", "popen_error"}

\* stop_server on a live process: it ends on SIGTERM or SIGKILL, or it has
\* exited by itself before os.kill(pid, SIGTERM), which then raises
StopOutcomes == {"killed", "gone"}

\* _is_running(pid) for a process that is not a child of the caller
IsRunning(s, pid) == pid \in m_live[s]

\* _get_pid(server_name): the number in the PID file, None without the file
GetPid(s) == m_pidfile[s]

\* start_server(server_name)
StartServer(s, outcome) ==
    LET existing_pid == GetPid(s)
        alive == existing_pid # NoPid /\ IsRunning(s, existing_pid)
    IN  /\ IF s \notin McpEnabled
           THEN /\ m_call' = [op |-> "start", server |-> s, ret |-> FALSE,
                              spawned |-> FALSE, alive |-> alive]
                /\ UNCHANGED <<m_live, m_pidfile, m_next>>
           ELSE IF alive
           THEN /\ m_call' = [op |-> "start", server |-> s, ret |-> TRUE,
                              spawned |-> FALSE, alive |-> TRUE]
                /\ UNCHANGED <<m_live, m_pidfile, m_next>>
           ELSE IF outcome = "popen_error"
           THEN /\ m_call' = [op |-> "start", server |-> s, ret |-> FALSE,
                              spawned |-> FALSE, alive |-> FALSE]
                /\ UNCHANGED <<m_live, m_pidfile, m_next>>
           ELSE /\ m_next <= MaxSpawns
                /\ m_next' = m_next + 1
                /\ m_pidfile' = [m_pidfile EXCEPT ![s] = m_next]
                /\ m_live' = IF outcome = "up"
                             THEN [m_live EXCEPT ![s] = @ \cup {m_next}]
                             ELSE m_live
                /\ m_call' = [op |-> "start", server |-> s,
                              ret |-> outcome \in {"up", "exited_found"},
                              spawned |-> TRUE, alive |-> FALSE]
    /\ UNCHANGED <<storeVars, orchVars, watchVars, schedVars, textVars>>

\* stop_server(server_name)
StopServer(s, outcome) ==
    LET pid == GetPid(s)
    IN  /\ IF pid = NoPid
           THEN /\ m_call' = [op |-> "stop", server |-> s, ret |-> TRUE,
                              spawned |-> FALSE, alive |-> FALSE]
                /\ UNCHANGED <<m_live, m_pidfile>>
           ELSE IF ~IsRunning(s, pid)
           THEN /\ m_pidfile' = [m_pidfile EXCEPT ![s] = NoPid]
                /\ m_call' = [op |-> "stop", server |-> s, ret |-> TRUE,
                              spawned |-> FALSE, alive |-> FALSE]
                /\ UNCHANGED m_live
           ELSE IF outcome = "killed"
           THEN /\ m_live' = [m_live EXCEPT ![s] = @ \ {pid}]
                /\ m_pidfile' = [m_pidfile EXCEPT ![s] = NoPid]
                /\ m_call' = [op |-> "stop", server |-> s, ret |-> TRUE,
                              spawned |-> FALSE, alive |-> TRUE]
           ELSE /\ m_live' = [m_live EXCEPT ![s] = @ \ {pid}]
                /\ m_call' = [op |-> "stop", server |-> s, ret |-> FALSE,
                              spawned |-> FALSE, alive |-> TRUE]
                /\ UNCHANGED m_pidfile
    /\ UNCHANGED m_next
    /\ UNCHANGED <<storeVars, orchVars, watchVars, schedVars, textVars>>

McpNext ==
    \/ \E s \in McpServers, outcome \in StartOutcomes : StartServer(s, outcome)
    \/ \E s \in McpServers, outcome \in StopOutcomes : StopServer(s, outcome)

\* ========================================================== specifications
\* Each specification runs one component; the others stay as constructed.
\* The Item Store after the folders were made: both platforms, since
\* Path.rename differs between them.
Init ==
    /\ now = 0
    /\ posix \in BOOLEAN
    /\ quota = MaxItems
    /\ horizon = MaxMoveTime
    /\ store = [f \in Folders |-> EmptyFolder]
    /\ nextId = 1
    /\ cs = CsIdle
    /\ pa = PaIdle
    /\ tr = TrNone
    /\ na = [n \in {} |-> "content"]
    /\ o_processed = {}
    /\ o_pc = "scan"
    /\ o_batch = {}
    /\ o_outcome = "none"
    /\ o_ret = [n \in TaskNames |-> 0]
    /\ o_redo = {}
    /\ o_report = NoReport
    /\ o_scans = 0
    /\ o_prev = {}
    /\ o_restarts = 0
    /\ which = "none"
    /\ inbox = [n \in {} |-> "h1"]
    /\ fs_processed = {}
    /\ gm_unread = {}
    /\ gm_important = {}
    /\ gm_processed = {}
    /\ gm_file = {}
    /\ w_pc = "poll"
    /\ w_queue = {}
    /\ w_seen = Counters
    /\ w_ok = Counters
    /\ w_ret = Counters
    /\ w_created = Counters
    /\ gm_old = 0
    /\ gm_file_old = 0
    /\ w_err = "none"
    /\ w_restarts = 0
    /\ w_copying = {}
    /\ gm_saves = 0
    /\ gm_doc = "missing"
    /\ s_clock = [day |-> "Sunday", hour |-> 8, minute |-> 0]
    /\ s_pc = "idle"
    /\ s_now = [day |-> "Sunday", hour |-> 8, minute |-> 0]
    /\ s_idx = 1
    /\ s_results = <<>>
    /\ s_execs = NoRuns
    /\ s_calls = 0
    /\ t_pc = "input"
    /\ t_creator = "create_approval"
    /\ t_label = PlainValue
    /\ t_payload = PlainValue
    /\ t_file = <<>>
    /\ p_marks = <<" ">>
    /\ p_status = "in_progress"
    /\ p_call = NoCall
    /\ m_live = [s \in McpServers |-> {}]
    /\ m_pidfile = [s \in McpServers |-> NoPid]
    /\ m_next = 1
    /\ m_call = NoMcpCall

Spec == Init /\ [][StoreNext]_vars

\* the approval gate alone: the two creators of requests, the external actor
\* and process_approved
SpecGate == Init /\ [][GateNext]_vars

StatusInit ==
    /\ now = 0
    /\ posix = TRUE
    /\ quota = MaxRequests
    /\ horizon = MaxTime
    /\ store = [f \in Folders |-> EmptyFolder]
    /\ nextId = 1
    /\ cs = CsIdle
    /\ pa = PaIdle
    /\ tr = TrNone
    /\ na = [n \in {} |-> "content"]
    /\ o_processed = {}
    /\ o_pc = "scan"
    /\ o_batch = {}
    /\ o_outcome = "none"
    /\ o_ret = [n \in TaskNames |-> 0]
    /\ o_redo = {}
    /\ o_report = NoReport
    /\ o_scans = 0
    /\ o_prev = {}
    /\ o_restarts = 0
    /\ which = "none"
    /\ inbox = [n \in {} |-> "h1"]
    /\ fs_processed = {}
    /\ gm_unread = {}
    /\ gm_important = {}
    /\ gm_processed = {}
    /\ gm_file = {}
    /\ w_pc = "poll"
    /\ w_queue = {}
    /\ w_seen = Counters
    /\ w_ok = Counters
    /\ w_ret = Counters
    /\ w_created = Counters
    /\ gm_old = 0
    /\ gm_file_old = 0
    /\ w_err = "none"
    /\ w_restarts = 0
    /\ w_copying = {}
    /\ gm_saves = 0
    /\ gm_doc = "missing"
    /\ s_clock = [day |-> "Sunday", hour |-> 8, minute |-> 0]
    /\ s_pc = "idle"
    /\ s_now = [day |-> "Sunday", hour |-> 8, minute |-> 0]
    /\ s_idx = 1
    /\ s_results = <<>>
    /\ s_execs = NoRuns
    /\ s_calls = 0
    /\ t_pc = "input"
    /\ t_creator = "create_approval"
    /\ t_label = PlainValue
    /\ t_payload = PlainValue
    /\ t_file = <<>>
    /\ p_marks = <<" ">>
    /\ p_status = "in_progress"
    /\ p_call = NoCall
    /\ m_live = [s \in McpServers |-> {}]
    /\ m_pidfile = [s \in McpServers |-> NoPid]
    /\ m_next = 1
    /\ m_call = NoMcpCall

SpecStatus == StatusInit /\ [][StatusNext]_vars

SpecExpiry == StatusInit /\ [][ExpiryNext]_vars

\* Orchestrator.__init__: processed_files = set()
OrchInit ==
    /\ now = 0
    /\ posix = TRUE
    /\ quota = MaxRequests
    /\ horizon = MaxTime
    /\ store = [f \in Folders |-> EmptyFolder]
    /\ nextId = 1
    /\ cs = CsIdle
    /\ pa = PaIdle
    /\ tr = TrNone
    /\ na = [n \in {} |-> "content"]
    /\ o_processed = {}
    /\ o_pc = "scan"
    /\ o_batch = {}
    /\ o_outcome = "none"
    /\ o_ret = [n \in TaskNames |-> 0]
    /\ o_redo = {}
    /\ o_report = NoReport
    /\ o_scans = 0
    /\ o_prev = {}
    /\ o_restarts = 0
    /\ which = "none"
    /\ inbox = [n \in {} |-> "h1"]
    /\ fs_processed = {}
    /\ gm_unread = {}
    /\ gm_important = {}
    /\ gm_processed = {}
    /\ gm_file = {}
    /\ w_pc = "poll"
    /\ w_queue = {}
    /\ w_seen = Counters
    /\ w_ok = Counters
    /\ w_ret = Counters
    /\ w_created = Counters
    /\ gm_old = 0
    /\ gm_file_old = 0
    /\ w_err = "none"
    /\ w_restarts = 0
    /\ w_copying = {}
    /\ gm_saves = 0
    /\ gm_doc = "missing"
    /\ s_clock = [day |-> "Sunday", hour |-> 8, minute |-> 0]
    /\ s_pc = "idle"
    /\ s_now = [day |-> "Sunday", hour |-> 8, minute |-> 0]
    /\ s_idx = 1
    /\ s_results = <<>>
    /\ s_execs = NoRuns
    /\ s_calls = 0
    /\ t_pc = "input"
    /\ t_creator = "create_approval"
    /\ t_label = PlainValue
    /\ t_payload = PlainValue
    /\ t_file = <<>>
    /\ p_marks = <<" ">>
    /\ p_status = "in_progress"
    /\ p_call = NoCall
    /\ m_live = [s \in McpServers |-> {}]
    /\ m_pidfile = [s \in McpServers |-> NoPid]
    /\ m_next = 1
    /\ m_call = NoMcpCall

SpecOrch == OrchInit /\ [][OrchNext]_vars

\* the Orchestrator whose loop keeps running: `while True` takes each of its
\* steps (the scan, the dispatch, which ends after 300 s at the latest, the
\* sleep) once it is due
SpecOrchFair ==
    /\ OrchInit
    /\ [][OrchNext]_vars
    /\ WF_vars(OScan)
    /\ WF_vars(\E o \in Outcomes : ODispatch(o))
    /\ WF_vars(OSleep)

\* one watcher process, FileSystemWatcher (processed_files = {}) or
\* GmailWatcher (no cache file yet); a message is important or not
WatchInit ==
    /\ now = 0
    /\ posix = TRUE
    /\ quota = MaxRequests
    /\ horizon = MaxTime
    /\ store = [f \in Folders |-> EmptyFolder]
    /\ nextId = 1
    /\ cs = CsIdle
    /\ pa = PaIdle
    /\ tr = TrNone
    /\ na = [n \in {} |-> "content"]
    /\ o_processed = {}
    /\ o_pc = "scan"
    /\ o_batch = {}
    /\ o_outcome = "none"
    /\ o_ret = [n \in TaskNames |-> 0]
    /\ o_redo = {}
    /\ o_report = NoReport
    /\ o_scans = 0
    /\ o_prev = {}
    /\ o_restarts = 0
    /\ which \in {"fs", "gmail"}
    /\ inbox = [n \in {} |-> "h1"]
    /\ fs_processed = {}
    /\ gm_unread = {}
    /\ gm_important \in SUBSET Msgs
    /\ gm_processed = {}
    /\ gm_file = {}
    /\ w_pc = "poll"
    /\ w_queue = {}
    /\ w_seen = Counters
    /\ w_ok = Counters
    /\ w_ret = Counters
    /\ w_created = Counters
    /\ gm_old = 0
    /\ gm_file_old = 0
    /\ w_err = "none"
    /\ w_restarts = 0
    /\ w_copying = {}
    /\ gm_saves = 0
    /\ gm_doc = "missing"
    /\ s_clock = [day |-> "Sunday", hour |-> 8, minute |-> 0]
    /\ s_pc = "idle"
    /\ s_now = [day |-> "Sunday", hour |-> 8, minute |-> 0]
    /\ s_idx = 1
    /\ s_results = <<>>
    /\ s_execs = NoRuns
    /\ s_calls = 0
    /\ t_pc = "input"
    /\ t_creator = "create_approval"
    /\ t_label = PlainValue
    /\ t_payload = PlainValue
    /\ t_file = <<>>
    /\ p_marks = <<" ">>
    /\ p_status = "in_progress"
    /\ p_call = NoCall
    /\ m_live = [s \in McpServers |-> {}]
    /\ m_pidfile = [s \in McpServers |-> NoPid]
    /\ m_next = 1
    /\ m_call = NoMcpCall

SpecWatch == WatchInit /\ [][WatchNext]_vars

\* the GmailWatcher of the gmail-watcher skill (no cache file yet)
SkillInit ==
    /\ now = 0
    /\ posix = TRUE
    /\ quota = MaxRequests
    /\ horizon = MaxTime
    /\ store = [f \in Folders |-> EmptyFolder]
    /\ nextId = 1
    /\ cs = CsIdle
    /\ pa = PaIdle
    /\ tr = TrNone
    /\ na = [n \in {} |-> "content"]
    /\ o_processed = {}
    /\ o_pc = "scan"
    /\ o_batch = {}
    /\ o_outcome = "none"
    /\ o_ret = [n \in TaskNames |-> 0]
    /\ o_redo = {}
    /\ o_report = NoReport
    /\ o_scans = 0
    /\ o_prev = {}
    /\ o_restarts = 0
    /\ which = "gmail_skill"
    /\ inbox = [n \in {} |-> "h1"]
    /\ fs_processed = {}
    /\ gm_unread = {}
    /\ gm_important \in SUBSET Msgs
    /\ gm_processed = {}
    /\ gm_file = {}
    /\ w_pc = "poll"
    /\ w_queue = {}
    /\ w_seen = Counters
    /\ w_ok = Counters
    /\ w_ret = Counters
    /\ w_created = Counters
    /\ gm_old = 0
    /\ gm_file_old = 0
    /\ w_err = "none"
    /\ w_restarts = 0
    /\ w_copying = {}
    /\ gm_saves = 0
    /\ gm_doc = "missing"
    /\ s_clock = [day |-> "Sunday", hour |-> 8, minute |-> 0]
    /\ s_pc = "idle"
    /\ s_now = [day |-> "Sunday", hour |-> 8, minute |-> 0]
    /\ s_idx = 1
    /\ s_results = <<>>
    /\ s_execs = NoRuns
    /\ s_calls = 0
    /\ t_pc = "input"
    /\ t_creator = "create_approval"
    /\ t_label = PlainValue
    /\ t_payload = PlainValue
    /\ t_file = <<>>
    /\ p_marks = <<" ">>
    /\ p_status = "in_progress"
    /\ p_call = NoCall
    /\ m_live = [s \in McpServers |-> {}]
    /\ m_pidfile = [s \in McpServers |-> NoPid]
    /\ m_next = 1
    /\ m_call = NoMcpCall

SpecSkill == SkillInit /\ [][SkillNext]_vars

\* the GmailWatcher whose loop keeps running: `while True` of run polls again
\* after each sleep and creates the items of each poll
MailInit ==
    /\ now = 0
    /\ posix = TRUE
    /\ quota = MaxRequests
    /\ horizon = MaxTime
    /\ store = [f \in Folders |-> EmptyFolder]
    /\ nextId = 1
    /\ cs = CsIdle
    /\ pa = PaIdle
    /\ tr = TrNone
    /\ na = [n \in {} |-> "content"]
    /\ o_processed = {}
    /\ o_pc = "scan"
    /\ o_batch = {}
    /\ o_outcome = "none"
    /\ o_ret = [n \in TaskNames |-> 0]
    /\ o_redo = {}
    /\ o_report = NoReport
    /\ o_scans = 0
    /\ o_prev = {}
    /\ o_restarts = 0
    /\ which = "gmail"
    /\ inbox = [n \in {} |-> "h1"]
    /\ fs_processed = {}
    /\ gm_unread = {}
    /\ gm_important \in SUBSET Msgs
    /\ gm_processed = {}
    /\ gm_file = {}
    /\ w_pc = "poll"
    /\ w_queue = {}
    /\ w_seen = Counters
    /\ w_ok = Counters
    /\ w_ret = Counters
    /\ w_created = Counters
    /\ gm_old = 0
    /\ gm_file_old = 0
    /\ w_err = "none"
    /\ w_restarts = 0
    /\ w_copying = {}
    /\ gm_saves = 0
    /\ gm_doc = "missing"
    /\ s_clock = [day |-> "Sunday", hour |-> 8, minute |-> 0]
    /\ s_pc = "idle"
    /\ s_now = [day |-> "Sunday", hour |-> 8, minute |-> 0]
    /\ s_idx = 1
    /\ s_results = <<>>
    /\ s_execs = NoRuns
    /\ s_calls = 0
    /\ t_pc = "input"
    /\ t_creator = "create_approval"
    /\ t_label = PlainValue
    /\ t_payload = PlainValue
    /\ t_file = <<>>
    /\ p_marks = <<" ">>
    /\ p_status = "in_progress"
    /\ p_call = NoCall
    /\ m_live = [s \in McpServers |-> {}]
    /\ m_pidfile = [s \in McpServers |-> NoPid]
    /\ m_next = 1
    /\ m_call = NoMcpCall

SpecMailFair ==
    /\ MailInit
    /\ [][MailNext]_vars
    /\ WF_vars(MailPoll)
    /\ WF_vars(MailCreate)

\* a GmailWatcher process that holds 0, 998 or 999 ids of messages the mailbox
\* no longer lists; no cache file yet
CacheInit ==
    /\ now = 0
    /\ posix = TRUE
    /\ quota = MaxRequests
    /\ horizon = MaxTime
    /\ store = [f \in Folders |-> EmptyFolder]
    /\ nextId = 1
    /\ cs = CsIdle
    /\ pa = PaIdle
    /\ tr = TrNone
    /\ na = [n \in {} |-> "content"]
    /\ o_processed = {}
    /\ o_pc = "scan"
    /\ o_batch = {}
    /\ o_outcome = "none"
    /\ o_ret = [n \in TaskNames |-> 0]
    /\ o_redo = {}
    /\ o_report = NoReport
    /\ o_scans = 0
    /\ o_prev = {}
    /\ o_restarts = 0
    /\ which = "gmail"
    /\ inbox = [n \in {} |-> "h1"]
    /\ fs_processed = {}
    /\ gm_unread = {}
    /\ gm_important = {}
    /\ gm_processed = {}
    /\ gm_file = {}
    /\ w_pc = "run"
    /\ w_queue = {}
    /\ w_seen = Counters
    /\ w_ok = Counters
    /\ w_ret = Counters
    /\ w_created = Counters
    /\ gm_old \in {0, CacheCap - 2, CacheCap - 1}
    /\ gm_file_old = 0
    /\ w_err = "none"
    /\ w_restarts = 0
    /\ w_copying = {}
    /\ gm_saves = 0
    /\ gm_doc = "missing"
    /\ s_clock = [day |-> "Sunday", hour |-> 8, minute |-> 0]
    /\ s_pc = "idle"
    /\ s_now = [day |-> "Sunday", hour |-> 8, minute |-> 0]
    /\ s_idx = 1
    /\ s_results = <<>>
    /\ s_execs = NoRuns
    /\ s_calls = 0
    /\ t_pc = "input"
    /\ t_creator = "create_approval"
    /\ t_label = PlainValue
    /\ t_payload = PlainValue
    /\ t_file = <<>>
    /\ p_marks = <<" ">>
    /\ p_status = "in_progress"
    /\ p_call = NoCall
    /\ m_live = [s \in McpServers |-> {}]
    /\ m_pidfile = [s \in McpServers |-> NoPid]
    /\ m_next = 1
    /\ m_call = NoMcpCall

SpecCache == CacheInit /\ [][CacheNext]_vars

\* the FileSystemWatcher on an empty inbox (processed_files = {})
CopyInit ==
    /\ now = 0
    /\ posix = TRUE
    /\ quota = MaxRequests
    /\ horizon = MaxTime
    /\ store = [f \in Folders |-> EmptyFolder]
    /\ nextId = 1
    /\ cs = CsIdle
    /\ pa = PaIdle
    /\ tr = TrNone
    /\ na = [n \in {} |-> "content"]
    /\ o_processed = {}
    /\ o_pc = "scan"
    /\ o_batch = {}
    /\ o_outcome = "none"
    /\ o_ret = [n \in TaskNames |-> 0]
    /\ o_redo = {}
    /\ o_report = NoReport
    /\ o_scans = 0
    /\ o_prev = {}
    /\ o_restarts = 0
    /\ which = "fs"
    /\ inbox = [n \in {} |-> "h1"]
    /\ fs_processed = {}
    /\ gm_unread = {}
    /\ gm_important = {}
    /\ gm_processed = {}
    /\ gm_file = {}
    /\ w_pc = "poll"
    /\ w_queue = {}
    /\ w_seen = Counters
    /\ w_ok = Counters
    /\ w_ret = Counters
    /\ w_created = Counters
    /\ gm_old = 0
    /\ gm_file_old = 0
    /\ w_err = "none"
    /\ w_restarts = 0
    /\ w_copying = {}
    /\ gm_saves = 0
    /\ gm_doc = "missing"
    /\ s_clock = [day |-> "Sunday", hour |-> 8, minute |-> 0]
    /\ s_pc = "idle"
    /\ s_now = [day |-> "Sunday", hour |-> 8, minute |-> 0]
    /\ s_idx = 1
    /\ s_results = <<>>
    /\ s_execs = NoRuns
    /\ s_calls = 0
    /\ t_pc = "input"
    /\ t_creator = "create_approval"
    /\ t_label = PlainValue
    /\ t_payload = PlainValue
    /\ t_file = <<>>
    /\ p_marks = <<" ">>
    /\ p_status = "in_progress"
    /\ p_call = NoCall
    /\ m_live = [s \in McpServers |-> {}]
    /\ m_pidfile = [s \in McpServers |-> NoPid]
    /\ m_next = 1
    /\ m_call = NoMcpCall

SpecCopy == CopyInit /\ [][CopyNext]_vars

\* a watcher over its restarts; the GmailWatcher starts on a cache file that
\* earlier runs left with up to 1000 ids of messages no longer listed
LifeInit ==
    /\ now = 0
    /\ posix = TRUE
    /\ quota = MaxRequests
    /\ horizon = MaxTime
    /\ store = [f \in Folders |-> EmptyFolder]
    /\ nextId = 1
    /\ cs = CsIdle
    /\ pa = PaIdle
    /\ tr = TrNone
    /\ na = [n \in {} |-> "content"]
    /\ o_processed = {}
    /\ o_pc = "scan"
    /\ o_batch = {}
    /\ o_outcome = "none"
    /\ o_ret = [n \in TaskNames |-> 0]
    /\ o_redo = {}
    /\ o_report = NoReport
    /\ o_scans = 0
    /\ o_prev = {}
    /\ o_restarts = 0
    /\ which \in {"fs", "gmail"}
    /\ inbox = [n \in {} |-> "h1"]
    /\ fs_processed = {}
    /\ gm_unread = {}
    /\ gm_important \in IF which = "gmail" THEN SUBSET Msgs ELSE {{}}
    /\ gm_processed = {}
    /\ gm_file = {}
    /\ w_pc = "poll"
    /\ w_queue = {}
    /\ w_seen = Counters
    /\ w_ok = Counters
    /\ w_ret = Counters
    /\ w_created = Counters
    /\ gm_file_old \in IF which = "gmail" THEN {0, CacheCap - 1, CacheCap} ELSE {0}
    /\ gm_old = gm_file_old
    /\ w_err = "none"
    /\ w_restarts = 0
    /\ w_copying = {}
    /\ gm_saves = 0
    /\ gm_doc = IF gm_file_old = 0 THEN "missing" ELSE "object"
    /\ s_clock = [day |-> "Sunday", hour |-> 8, minute |-> 0]
    /\ s_pc = "idle"
    /\ s_now = [day |-> "Sunday", hour |-> 8, minute |-> 0]
    /\ s_idx = 1
    /\ s_results = <<>>
    /\ s_execs = NoRuns
    /\ s_calls = 0
    /\ t_pc = "input"
    /\ t_creator = "create_approval"
    /\ t_label = PlainValue
    /\ t_payload = PlainValue
    /\ t_file = <<>>
    /\ p_marks = <<" ">>
    /\ p_status = "in_progress"
    /\ p_call = NoCall
    /\ m_live = [s \in McpServers |-> {}]
    /\ m_pidfile = [s \in McpServers |-> NoPid]
    /\ m_next = 1
    /\ m_call = NoMcpCall

SpecLife == LifeInit /\ [][LifeNext]_vars

\* Scheduler.__init__, at any instant of the clock
SchedInit ==
    /\ now = 0
    /\ posix = TRUE
    /\ quota = MaxRequests
    /\ horizon = MaxTime
    /\ store = [f \in Folders |-> EmptyFolder]
    /\ nextId = 1
    /\ cs = CsIdle
    /\ pa = PaIdle
    /\ tr = TrNone
    /\ na = [n \in {} |-> "content"]
    /\ o_processed = {}
    /\ o_pc = "scan"
    /\ o_batch = {}
    /\ o_outcome = "none"
    /\ o_ret = [n \in TaskNames |-> 0]
    /\ o_redo = {}
    /\ o_report = NoReport
    /\ o_scans = 0
    /\ o_prev = {}
    /\ o_restarts = 0
    /\ which = "none"
    /\ inbox = [n \in {} |-> "h1"]
    /\ fs_processed = {}
    /\ gm_unread = {}
    /\ gm_important = {}
    /\ gm_processed = {}
    /\ gm_file = {}
    /\ w_pc = "poll"
    /\ w_queue = {}
    /\ w_seen = Counters
    /\ w_ok = Counters
    /\ w_ret = Counters
    /\ w_created = Counters
    /\ gm_old = 0
    /\ gm_file_old = 0
    /\ w_err = "none"
    /\ w_restarts = 0
    /\ w_copying = {}
    /\ gm_saves = 0
    /\ gm_doc = "missing"
    /\ s_clock \in Instants
    /\ s_pc = "idle"
    /\ s_now = s_clock
    /\ s_idx = 1
    /\ s_results = <<>>
    /\ s_execs = NoRuns
    /\ s_calls = 0
    /\ t_pc = "input"
    /\ t_creator = "create_approval"
    /\ t_label = PlainValue
    /\ t_payload = PlainValue
    /\ t_file = <<>>
    /\ p_marks = <<" ">>
    /\ p_status = "in_progress"
    /\ p_call = NoCall
    /\ m_live = [s \in McpServers |-> {}]
    /\ m_pidfile = [s \in McpServers |-> NoPid]
    /\ m_next = 1
    /\ m_call = NoMcpCall

SpecSched == SchedInit /\ [][SchedNext]_vars

\* a creator about to write an item file, for any two string inputs
TextInit ==
    /\ now = 0
    /\ posix = TRUE
    /\ quota = MaxRequests
    /\ horizon = MaxTime
    /\ store = [f \in Folders |-> EmptyFolder]
    /\ nextId = 1
    /\ cs = CsIdle
    /\ pa = PaIdle
    /\ tr = TrNone
    /\ na = [n \in {} |-> "content"]
    /\ o_processed = {}
    /\ o_pc = "scan"
    /\ o_batch = {}
    /\ o_outcome = "none"
    /\ o_ret = [n \in TaskNames |-> 0]
    /\ o_redo = {}
    /\ o_report = NoReport
    /\ o_scans = 0
    /\ o_prev = {}
    /\ o_restarts = 0
    /\ which = "none"
    /\ inbox = [n \in {} |-> "h1"]
    /\ fs_processed = {}
    /\ gm_unread = {}
    /\ gm_important = {}
    /\ gm_processed = {}
    /\ gm_file = {}
    /\ w_pc = "poll"
    /\ w_queue = {}
    /\ w_seen = Counters
    /\ w_ok = Counters
    /\ w_ret = Counters
    /\ w_created = Counters
    /\ gm_old = 0
    /\ gm_file_old = 0
    /\ w_err = "none"
    /\ w_restarts = 0
    /\ w_copying = {}
    /\ gm_saves = 0
    /\ gm_doc = "missing"
    /\ s_clock = [day |-> "Sunday", hour |-> 8, minute |-> 0]
    /\ s_pc = "idle"
    /\ s_now = [day |-> "Sunday", hour |-> 8, minute |-> 0]
    /\ s_idx = 1
    /\ s_results = <<>>
    /\ s_execs = NoRuns
    /\ s_calls = 0
    /\ t_pc = "input"
    /\ t_creator \in Creators
    /\ t_label \in Values
    /\ t_payload \in Values
    /\ t_file = <<>>
    /\ p_marks = <<" ">>
    /\ p_status = "in_progress"
    /\ p_call = NoCall
    /\ m_live = [s \in McpServers |-> {}]
    /\ m_pidfile = [s \in McpServers |-> NoPid]
    /\ m_next = 1
    /\ m_call = NoMcpCall

SpecText == TextInit /\ [][TextNext]_vars

\* a plan as create_plan wrote it: status in_progress, every step "[ ]"
PlanInit ==
    /\ now = 0
    /\ posix = TRUE
    /\ quota = MaxRequests
    /\ horizon = MaxTime
    /\ store = [f \in Folders |-> EmptyFolder]
    /\ nextId = 1
    /\ cs = CsIdle
    /\ pa = PaIdle
    /\ tr = TrNone
    /\ na = [n \in {} |-> "content"]
    /\ o_processed = {}
    /\ o_pc = "scan"
    /\ o_batch = {}
    /\ o_outcome = "none"
    /\ o_ret = [n \in TaskNames |-> 0]
    /\ o_redo = {}
    /\ o_report = NoReport
    /\ o_scans = 0
    /\ o_prev = {}
    /\ o_restarts = 0
    /\ which = "none"
    /\ inbox = [n \in {} |-> "h1"]
    /\ fs_processed = {}
    /\ gm_unread = {}
    /\ gm_important = {}
    /\ gm_processed = {}
    /\ gm_file = {}
    /\ w_pc = "poll"
    /\ w_queue = {}
    /\ w_seen = Counters
    /\ w_ok = Counters
    /\ w_ret = Counters
    /\ w_created = Counters
    /\ gm_old = 0
    /\ gm_file_old = 0
    /\ w_err = "none"
    /\ w_restarts = 0
    /\ w_copying = {}
    /\ gm_saves = 0
    /\ gm_doc = "missing"
    /\ s_clock = [day |-> "Sunday", hour |-> 8, minute |-> 0]
    /\ s_pc = "idle"
    /\ s_now = [day |-> "Sunday", hour |-> 8, minute |-> 0]
    /\ s_idx = 1
    /\ s_results = <<>>
    /\ s_execs = NoRuns
    /\ s_calls = 0
    /\ t_pc = "input"
    /\ t_creator = "create_plan"
    /\ t_label = PlainValue
    /\ t_payload = PlainValue
    /\ t_file = <<>>
    /\ p_marks \in UNION {[1..n -> {" "}] : n \in 1..MaxSteps}
    /\ p_status = "in_progress"
    /\ p_call = NoCall
    /\ m_live = [s \in McpServers |-> {}]
    /\ m_pidfile = [s \in McpServers |-> NoPid]
    /\ m_next = 1
    /\ m_call = NoMcpCall

SpecPlan == PlanInit /\ [][PlanNext]_vars

\* the MCPManager over an empty PID directory: no server was started
McpInit ==
    /\ now = 0
    /\ posix = TRUE
    /\ quota = MaxRequests
    /\ horizon = MaxTime
    /\ store = [f \in Folders |-> EmptyFolder]
    /\ nextId = 1
    /\ cs = CsIdle
    /\ pa = PaIdle
    /\ tr = TrNone
    /\ na = [n \in {} |-> "content"]
    /\ o_processed = {}
    /\ o_pc = "scan"
    /\ o_batch = {}
    /\ o_outcome = "none"
    /\ o_ret = [n \in TaskNames |-> 0]
    /\ o_redo = {}
    /\ o_report = NoReport
    /\ o_scans = 0
    /\ o_prev = {}
    /\ o_restarts = 0
    /\ which = "none"
    /\ inbox = [n \in {} |-> "h1"]
    /\ fs_processed = {}
    /\ gm_unread = {}
    /\ gm_important = {}
    /\ gm_processed = {}
    /\ gm_file = {}
    /\ w_pc = "poll"
    /\ w_queue = {}
    /\ w_seen = Counters
    /\ w_ok = Counters
    /\ w_ret = Counters
    /\ w_created = Counters
    /\ gm_old = 0
    /\ gm_file_old = 0
    /\ w_err = "none"
    /\ w_restarts = 0
    /\ w_copying = {}
    /\ gm_saves = 0
    /\ gm_doc = "missing"
    /\ s_clock = [day |-> "Sunday", hour |-> 8, minute |-> 0]
    /\ s_pc = "idle"
    /\ s_now = [day |-> "Sunday", hour |-> 8, minute |-> 0]
    /\ s_idx = 1
    /\ s_results = <<>>
    /\ s_execs = NoRuns
    /\ s_calls = 0
    /\ t_pc = "input"
    /\ t_creator = "create_plan"
    /\ t_label = PlainValue
    /\ t_payload = PlainValue
    /\ t_file = <<>>
    /\ p_marks = <<" ">>
    /\ p_status = "in_progress"
    /\ p_call = NoCall
    /\ m_live = [s \in McpServers |-> {}]
    /\ m_pidfile = [s \in McpServers |-> NoPid]
    /\ m_next = 1
    /\ m_call = NoMcpCall

SpecMcp == McpInit /\ [][McpNext]_vars

C2_ExactlyOneFolder ==
    \A i \in 1..(nextId - 1) : Cardinality(FoldersOf(store, i)) = 1

\* C3: within one Orchestrator process no filename is returned by two scans.
C3_NeverReturnedTwice ==
    \A n \in TaskNames : o_ret[n] <= 1

\* a scan that met a complete .md file it had returned before and left it out
C3_Witness ==
    /\ o_pc = "sleep"
    /\ o_batch = {}
    /\ \E n \in DOMAIN na : IsMd(n) /\ na[n] = "content" /\ o_ret[n] = 1

\* C4: the scan that follows a timed-out dispatch returns every file of that
\* batch that is still complete in Needs_Action.
C4_TimedOutBatchReturnedAgain ==
    o_redo \subseteq o_batch

C6_DestinationOccupiedFails ==
    (tr.op # "none" /\ tr.srcHad /\ tr.dstHad) =>
        /\ tr.result = "FileExistsError"
        /\ ItemIn(store, tr.src, tr.item)
        /\ ItemIn(store, "Done", tr.dstItem)

\* C7: for a request written by create_approval with expiry instant E and read
\* in Pending_Approval, check_status answers 'expired' exactly when the time
\* of the query is later than E.
C7_ExpiredIffPastExpiry ==
    (cs.pc = "done" /\ cs.content.by = "create_approval") =>
        (cs.result = "expired" <=> cs.at > cs.content.E)

\* C8: no step of check_status changes any folder: the files and their
\* contents are what they were before the step.
C8_CheckStatusReadOnly ==
    [][(cs'.pc # cs.pc \/ cs'.idx # cs.idx) => store' = store]_vars

\* a request reported expired that is still in Pending_Approval, unchanged
C8_Witness ==
    /\ cs.pc = "done"
    /\ cs.result = "expired"
    /\ ContentOf(store, "Pending_Approval", cs.file) = cs.content

\* C9: for a file read in Pending_Approval whose expires line is missing or
\* is not a parseable timestamp, check_status answers 'pending'.
C9_MalformedExpiryIsPending ==
    (cs.pc = "done" /\ IsFile(cs.content)
        /\ cs.content.exp.kind \in {"missing", "junk", "tailjunk"}) =>
        cs.result = "pending"

\* C10: a query on a file that was in Pending_Approval when the query began,
\* and that nothing but the approving rename touched meanwhile, answers
\* 'pending', 'expired' or 'approved'.
C10_PendingOrApproved ==
    (cs.pc = "done" /\ cs.startPending /\ cs.clean) =>
        cs.result \in {"pending", "expired", "approved"}

\* the schedule of each job of the table, read as the table's comments state
\* it: 8:00 AM daily, every 30 minutes, Sunday 10:00 PM, every 15 minutes
Due(name, t) ==
    CASE name = "daily_briefing" -> t.hour = 8 /\ t.minute = 0
      [] name = "process_pending" -> t.minute % 30 = 0
      [] name = "weekly_audit" -> t.day = "Sunday" /\ t.hour = 22 /\ t.minute = 0
      [] OTHER -> t.minute % 15 = 0

Ran(name) == \E k \in 1..Len(s_results) : s_results[k].task = name

\* C11: when run_due_tasks returns, a job of the table was executed if and
\* only if its schedule matches the instant the call read: '*/N' on minute
\* mod N = 0, 'HH:MM' on that clock time, 'Weekday HH:MM' on that weekday and
\* clock time.
C11_RunsIffScheduleMatches ==
    /\ s_pc # "raised"
    /\ Returned => \A n \in JobNames : Ran(n) <=> Due(n, s_now)

\* a call at minute 30 that ran the '*/30' job and left the '08:00' job out
C11_Witness ==
    /\ Returned
    /\ s_now.minute = 30
    /\ Ran("process_pending")
    /\ ~Ran("daily_briefing")

\* C12: a fixed-time job ('HH:MM' or 'Weekday HH:MM') is executed at most
\* once for one clock minute, however often run_due_tasks is invoked in it.
C12_OncePerMatchingMinute ==
    \A i \in 1..Len(tasks) :
        ~StartsWith(tasks[i].schedule, <<"*", "/">>) => s_execs[tasks[i].name] <= 1

\* C13: in one run_due_tasks call every due job contributes exactly one
\* result, whatever the outcomes of the jobs before it, and no outcome of a
\* job or of its logging ends the call before the table is through.
C13_EveryDueJobOneResult ==
    /\ s_pc # "raised"
    /\ Returned =>
          \A n \in JobNames :
              Cardinality({k \in 1..Len(s_results) : s_results[k].task = n})
                  = IF Due(n, s_now) THEN 1 ELSE 0

\* a call whose first due job raised and was not logged, and whose later due
\* jobs ran all the same
C13_Witness ==
    /\ Returned
    /\ Len(s_results) = 3
    /\ s_results[1].error = "str(e)"
    /\ ~s_results[1].logged
    /\ s_results[2].error = "Task timed out after 300 seconds"
    /\ s_results[3].success

\* C14: also across watcher restarts, no content hash and no message id has
\* two action files in Needs_Action (nothing in the watcher removes one).
C14_OneItemAcrossRestarts ==
    \A i \in Ids : w_created[i] <= 1

\* C15: the DedupCache never holds more ids than the capacity threshold:
\* neither the list in the cache file nor the set of the running watcher.
C15_CacheWithinCapacity ==
    /\ Cardinality(gm_file) + gm_file_old <= CacheCap
    /\ Cardinality(gm_processed) + gm_old <= CacheCap
    /\ Cardinality(fs_processed) <= CacheCap

C17_AgentFailureReported ==
    o_outcome \in {"not_found", "timeout", "nonzero"} =>
        /\ ~o_report.ret
        /\ o_report.event = "qwen_error"
        /\ ~o_report.dashboard
        /\ (o_outcome = "timeout" => o_report.killed)

\* C18 (as claimed): the first scan of a newly started Orchestrator process
\* returns every non-empty .md file that is in Needs_Action.
C18_FirstScanReturnsNonEmpty ==
    [][(o_scans = 0 /\ o_scans' = 1) =>
          o_batch' = {n \in DOMAIN na : IsMd(n) /\ na[n] # "empty"}]_vars

\* C18 (amended): the first scan of a newly started Orchestrator process
\* returns exactly the .md files in Needs_Action whose first 10 characters
\* are not all white space, whether or not an earlier process dispatched them.
C18_FirstScanReturnsAll ==
    [][(o_scans = 0 /\ o_scans' = 1) =>
          o_batch' = {n \in DOMAIN na : IsMd(n) /\ LeadingText(na[n])}]_vars

\* the first scan of a restarted process returned a file that the process
\* before it had dispatched
C18_Witness ==
    /\ o_restarts = 1
    /\ o_scans = 1
    /\ o_pc = "dispatch"
    /\ o_batch \cap o_prev # {}

\* C19: creating an item never replaces an item file that already exists:
\* no name in Pending_Approval comes to hold another item.
C19_CreateNeverOverwrites ==
    [][\A n \in DOMAIN store["Pending_Approval"] :
          n \in DOMAIN store'["Pending_Approval"] =>
              store'["Pending_Approval"][n].id = store["Pending_Approval"][n].id]_vars

\* C20: an approval request that newly appears in Done was in Approved, under
\* that name, in the state before; and a request that create_approval or
\* create_post_draft has just written is in Pending_Approval and nowhere else.
C20_DoneOnlyFromApproved ==
    [][/\ \A n \in DOMAIN store'["Done"] :
            LET c == store'["Done"][n]
            IN  (c.by # "create_plan" /\ ~(Exists(store, "Done", n) /\ store["Done"][n] = c))
                    => (Exists(store, "Approved", n) /\ store["Approved"][n] = c)
       /\ \A f \in Folders : \A n \in DOMAIN store'[f] :
            (nextId' # nextId /\ store'[f][n].id = nextId /\ store'[f][n].by # "create_plan")
                => f = "Pending_Approval"]_vars

\* process_approved has moved an approved request to Done while another
\* request, not approved, is still in Pending_Approval
C20_Witness ==
    /\ tr.op = "process_approved"
    /\ tr.result = "ok"
    /\ ItemIn(store, "Done", tr.item)
    /\ \E n \in DOMAIN store["Pending_Approval"] :
          store["Pending_Approval"][n].by = "create_post_draft"

C22_ScanReturnsExactlyNew ==
    [][(o_pc = "scan" /\ o_pc' \in {"dispatch", "sleep"}) =>
          o_batch' = {n \in DOMAIN na :
                         IsMd(n) /\ LeadingText(na[n]) /\ o_ret[n] = 0}]_vars

\* a scan returned A.md alone, leaving out B.md, which an earlier scan had
\* returned, and notes.txt
C22_Witness ==
    /\ o_pc = "dispatch"
    /\ o_batch = {"A.md"}
    /\ "B.md" \in DOMAIN na /\ na["B.md"] = "content" /\ o_ret["B.md"] = 1
    /\ "notes.txt" \in DOMAIN na

\* C23: every item file a creator has written holds a `type:` line and a
\* `status:` line in its metadata header, whatever the strings it was given.
C23_HeaderHasTypeAndStatus ==
    t_pc = "written" => HasField(t_file, "type") /\ HasField(t_file, "status")

\* the values a `status:` line is given: the words of the lifecycle, or a
\* line that also holds a time stamp and the text 'expires:'
StatusWords == {StatusWord(w) : w \in {"pending", "approved", "rejected", "done"}}

StatusLines == StatusWords \cup {StatusStamped(hour) : hour \in 0..(LastTick \div TicksPerHour)}

\* the store with the `status:` line of the file n rewritten, in every folder
\* that holds the name, to the line sv gives for the folder
WithStatus(st, n, sv) ==
    [f \in Folders |->
        [x \in DOMAIN st[f] |->
            IF x = n THEN [st[f][x] EXCEPT !.status = sv[f]] ELSE st[f][x]]]

C25_CachedOnlyAfterCreated ==
    (w_pc \in {"poll", "ended"} /\ w_queue = {}) =>
        \A i \in fs_processed \cup gm_processed \cup gm_file : w_created[i] >= 1

\* C26: a poll records no identity for a file whose copy into the inbox is
\* still in progress: every hash a poll adds to processed_files is the hash
\* of a complete file (so that the file yields one item, made once the copy is
\* through).
C26_MidCopySkipped ==
    [][\A h \in fs_processed' \ fs_processed :
          \E n \in (DOMAIN inbox) \ w_copying : inbox[n] = h]_vars

\* C27: whatever failure a dispatch met (agent missing, timeout, another
\* error while the dispatch was prepared or run), the loop goes on: run is
\* at the sleep or at a later scan or dispatch, never ended.
C27_DispatchFailureKeepsLoop ==
    o_outcome \in Outcomes \ {"completed"} => o_pc \in {"sleep", "scan", "dispatch"}

C29_OrchestratorLeavesItems ==
    [][(o_pc' # o_pc \/ o_restarts' # o_restarts) => (na' = na /\ store' = store)]_vars

\* a dispatch has ended as completed, the dashboard was updated, and each file
\* of its batch is in Needs_Action with its content
C29_Witness ==
    /\ o_pc = "sleep"
    /\ o_outcome = "completed"
    /\ o_report.dashboard
    /\ o_batch # {}
    /\ \A n \in o_batch : n \in DOMAIN na /\ na[n] = "content"

\* C30: a scan returns a file only when the producer has written all of it:
\* no file of a batch is one whose write has begun and not ended.
C30_ScanReturnsWholeFiles ==
    [][(o_pc = "scan" /\ o_pc' \in {"dispatch", "sleep"})
          => \A n \in o_batch' : na[n] = "content"]_vars

\* C31: a poll cycle of a GmailWatcher writes the cache file exactly when it
\* returned at least one new message; a cycle that returned none leaves the
\* file as it was.
C31_SavedIffNewItem ==
    [][(which \in GmailWatchers /\ w_pc = "poll")
          => /\ (w_queue' # {}) <=> (gm_saves' # gm_saves)
             /\ (w_queue' = {}) => (gm_file' = gm_file /\ gm_file_old' = gm_file_old)]_vars

\* C32: a save that has to evict keeps the ids added most recently: every
\* message accepted by the cycle that saves is in the file it writes, unless
\* the file keeps no older id at all.
C32_NewestIdsRetained ==
    [][(which \in GmailWatchers /\ gm_saves' # gm_saves)
          => \/ \A item \in w_queue' : item.id \in gm_file'
             \/ gm_file_old' = 0]_vars

C35_ReturnedIdsPersisted ==
    [][(which = "gmail" /\ w_pc = "poll" /\ gm_old = 0)
          => \A item \in w_queue' : item.id \in gm_file']_vars

\* C36: in one life of a FileSystemWatcher process each content (hash) gets
\* at most one action item, and only a content a poll met in the inbox gets
\* one: the items are no more than the distinct contents met, whether a
\* content is in the inbox once, twice, or also as the copy processed_<name>.
C36_OneItemPerContent ==
    which = "fs" =>
        /\ \A h \in Hashes : w_created[h] <= 1 /\ (w_created[h] = 1 => w_seen[h] >= 1)
        /\ Cardinality({h \in Hashes : w_created[h] >= 1})
               <= Cardinality({h \in Hashes : w_seen[h] >= 1})

\* the copy processed_a lies in the inbox beside a with the same content, a
\* later poll has met both, and the content has its one item
C36_Witness ==
    /\ which = "fs"
    /\ w_pc = "poll"
    /\ [base |-> "a", copy |-> 0] \in DOMAIN inbox
    /\ [base |-> "a", copy |-> 1] \in DOMAIN inbox
    /\ inbox[[base |-> "a", copy |-> 1]] = inbox[[base |-> "a", copy |-> 0]]
    /\ LET h == inbox[[base |-> "a", copy |-> 0]]
       IN  w_seen[h] = 2 /\ w_ok[h] = 2 /\ w_created[h] = 1

\* C37: an important message that is listed as unread gets its item at some
\* time (unless it is marked read first or the watcher has ended), also
\* where the fetch of another listed message raises in every poll.
C37_FailingMessageBlocksNone ==
    \A m \in Msgs \ {BrokenMsg} :
        (m \in gm_unread /\ m \in gm_important)
            ~> (w_created[m] >= 1 \/ m \notin gm_unread \/ w_pc = "ended")

\* C38: process_approved takes every .md file it finds in Approved and moves
\* it to Done, whatever the time and the file's expires line (a rename fails
\* only for a destination that exists on Windows); and check_status answers
\* 'expired' only for a name that is in Pending_Approval: a name found in
\* Approved, Rejected or Done first is answered by its folder.
C38_ExpiryNeverBlocks ==
    /\ [](\A n \in PresentNames :
            /\ CheckStatus(store, n, now) = "expired" => Exists(store, "Pending_Approval", n)
            /\ (~Exists(store, "Pending_Approval", n) /\ Exists(store, "Approved", n))
                  => CheckStatus(store, n, now) = "approved")
    /\ [][/\ (pa.pc = "loop" /\ pa'.list # pa.list)
              => \A n \in pa.list \ pa'.list :
                    (Exists(store, "Approved", n) /\ n.md)
                        => (pa'.pc = "rename" /\ pa'.cur = n)
          /\ (pa.pc = "rename" /\ pa'.pc # "rename" /\ Exists(store, "Approved", pa.cur)
                 /\ (posix \/ ~Exists(store, "Done", pa.cur)))
              => /\ Exists(store', "Done", pa.cur)
                 /\ store'["Done"][pa.cur] = store["Approved"][pa.cur]
                 /\ ~Exists(store', "Approved", pa.cur)]_vars

\* process_approved has just moved to Done a request whose expiry had passed
C38_Witness ==
    /\ tr.op = "process_approved"
    /\ tr.result = "ok"
    /\ \E n \in DOMAIN store["Done"] :
          /\ store["Done"][n].id = tr.item
          /\ store["Done"][n].by = "create_approval"
          /\ now > store["Done"][n].E

\* C39: after any sequence of update_step calls the header status of a plan
\* is completed exactly when each of its steps is [x], and a call that names a
\* step of the plan succeeds, whatever the mark of that step.
C39_CompletedIffAllChecked ==
    /\ p_status = "completed" <=> \A k \in 1..Len(p_marks) : p_marks[k] = "x"
    /\ p_call.step \in 1..Len(p_marks) => p_call.ok

\* C40 (as claimed): after any sequence of start_server and stop_server
\* calls every server name has at most one live process and its PID file
\* names it; a PID file exists only for a server whose process runs; a
\* start_server that found the recorded PID alive spawned nothing and
\* returned True; and after a stop_server that returned True the PID file
\* of the server is absent.
C40_OneLiveProcessNamedByPidFile ==
    /\ \A s \in McpServers :
          /\ Cardinality(m_live[s]) <= 1
          /\ m_live[s] # {} => m_pidfile[s] \in m_live[s]
          /\ m_pidfile[s] # NoPid => m_pidfile[s] \in m_live[s]
    /\ (m_call.op = "start" /\ m_call.alive) => (~m_call.spawned /\ m_call.ret)
    /\ (m_call.op = "stop" /\ m_call.ret) => m_pidfile[m_call.server] = NoPid

====
